---- MODULE Spec2Model ----
(***************************************************************************)
(* Model of the MoeNet DN42 agent: the debounced BIRD reloader, the        *)
(* reconciliation loop (SyncDaemon) with its executors and state store,    *)
(* startup with the loopback device, and the operator's peer restart.      *)
(*                                                                         *)
(* The repository carries two drifted generations of the same components.  *)
(* "daemon"  = daemon/sync.py wired to executor/bird.py (main.py's wiring) *)
(* "workers" = workers/sync_daemon.py wired to services/bird.py            *)
(* Both use the WireGuard and firewall executors of executor/.  The        *)
(* generation is fixed when the process starts (variable variant).         *)
(***************************************************************************)
EXTENDS Integers, Sequences, FiniteSets, TLC

VARIABLES
    variant,          \* which generation of SyncDaemon/BirdExecutor runs
    reload_timer,     \* BirdExecutor._reload_timer: 0 (None) or a timer id
    reload_pending,   \* BirdExecutor._reload_pending
    timers,           \* the threading.Timer threads, by id
    callers,          \* threads inside reload()/reload_now(), by thread
    sinceCall,        \* seconds since reload() was last invoked (saturating)
    sinceReload,      \* seconds since reload() last returned (saturating)
    calls,            \* reload() invocations so far
    nowCalls,         \* reload_now() invocations so far
    burstOK,          \* every reload() so far came < coalesce_delay after the previous
    afterNow,         \* reload_now() ran and no reload() has armed a timer since
    configures,       \* `birdc configure` invocations so far (saturating)
    lastConfigure,    \* who ran the last configure, and what it saw
    owed,             \* a reload() has returned and no configure has started since
    state,            \* StateManager._state (the memoized document)
    wgFiles,          \* <wg config_dir>/dn42-<asn>.conf, by ASN
    birdFiles,        \* <bird config_dir>/dn42_<asn>.conf, by ASN
    ifaces,           \* kernel link dn42-<asn>: "absent", "down" or "up"
    fw4,              \* agent-tagged iptables rules, count by port
    fw6,              \* agent-tagged ip6tables rules, count by port
    plainRules,       \* ports with an untagged ACCEPT rule (operator's)
    pc,               \* where SyncDaemon.run() stands
    running,          \* SyncDaemon._running
    counter,          \* run()'s local counter
    lastHeartbeat,    \* the heartbeat of the current tick
    syncs,            \* sync_config() calls run() has made
    applyOK,          \* by ASN: the peer spec whose latest _add_peer() succeeded
    lastFail,         \* the executor failure of the latest sync_config() call
    cycle,            \* what the last sync_config() call did
    boot,             \* main(): where startup stands, and the node id it holds
    dummy0,           \* the addresses on the dummy0 device
    lo,               \* what the last setup_loopback() call did
    store,            \* last_state.json, its temporary file and save()'s position
    loop,             \* the task the event loop is running: "none", "api" or "sync"
    api,              \* restart_peer(): its position and the steps it has issued
    rec,              \* the reconciler's pass over the peer: position and steps left
    bgp,              \* the peer's BGP protocol in BIRD: "enabled" or "disabled"
    ops,              \* the operator API: blacklist file, maintenance flag, configures
    proc,             \* the agent process: main()'s position after run(), threads lost
    prober,           \* LatencyProbe: its peers, its cycle and the callbacks it made
    web,              \* the HTTP API: the token, the request in hand and its answer
    portCalc,         \* _calculate_listen_port: the last two ASNs and their ports
    tun,              \* one tunnel interface: its link, its config file, the last up()
    mesh,             \* the mesh underlay: interfaces, config files, the last sync_mesh()
    hist,             \* LatencyProbe.history, by ASN
    mgr               \* the community manager's latency tier, by ASN

reloaderVars == <<reload_timer, reload_pending, timers, sinceCall, sinceReload,
                  calls, burstOK, afterNow, configures, lastConfigure, owed>>

threadVars == <<callers, nowCalls>>

agentVars == <<state, wgFiles, birdFiles, ifaces, fw4, fw6, plainRules,
              pc, running, counter, lastHeartbeat, syncs, applyOK, lastFail, cycle>>

worldVars == <<wgFiles, birdFiles, ifaces, fw4, fw6, plainRules,
               pc, running, counter, lastHeartbeat, syncs, applyOK, lastFail, cycle>>

bootVars == <<boot, dummy0, lo>>

storeVars == <<store>>

apiVars == <<loop, api, rec, bgp>>

lateVars == <<tun, mesh>>

extVars == <<ops, proc, prober, web, portCalc, lateVars, hist, mgr>>

hostVars == <<bootVars, storeVars, apiVars, extVars>>

coreVars == <<variant, reloaderVars, threadVars, agentVars, bootVars, storeVars, apiVars>>

syncVars == <<agentVars, hostVars>>

vars == <<variant, reloaderVars, threadVars, syncVars>>

-----------------------------------------------------------------------------
(* Bounds of the model *)

MaxTimers == 2

MaxCalls == 3

NumThreads == 2

MaxRules == 2

MaxSyncs == 3

(* Program constants *)

coalesce_delay == 2

heartbeat_interval == 30

sync_interval == 60

RangeA == 424242

RangeB == 420127

PortBaseA == 30000

PortBaseB == 40000

PortBaseOther == 50000

Variants == {"daemon", "workers"}

TimerIds == 1..MaxTimers

Threads == 1..NumThreads

MaxConfigures == 2

Sat(n, cap) == IF n < cap THEN n + 1 ELSE cap

FreeTimer == [st |-> "free", rem |-> 0]

-----------------------------------------------------------------------------
(* services/bird.py: the delayed-coalesce reloader.  Its three critical    *)
(* sections hold _reload_lock and are single atomic steps; everything      *)
(* between them interleaves.                                               *)

\* threading.Timer.cancel(): sets the timer's finished event.  A timer that
\* is still waiting then ends without calling its function; a timer that
\* already passed its is_set() test is not stopped.
Cancel(ts, id) ==
    IF id # 0 /\ ts[id].st = "waiting" THEN [ts EXCEPT ![id] = FreeTimer] ELSE ts

\* The id the next threading.Timer object gets.
NewTimerId(ts) == CHOOSE i \in TimerIds : ts[i].st = "free" /\ \A j \in TimerIds : ts[j].st = "free" => i <= j

\* One `birdc configure` subprocess.
Configure(by, age) ==
    /\ configures' = Sat(configures, MaxConfigures)
    /\ lastConfigure' = [by |-> by, age |-> age, afterNow |-> afterNow]
    /\ owed' = FALSE

\* Mutation of ServicesReload: a pending timer is cancelled and no new one
\* is started.
ServicesReloadNoRearm ==
    /\ \E i \in TimerIds : Cancel(timers, reload_timer)[i].st = "free"
    /\ LET ts == Cancel(timers, reload_timer)
           id == NewTimerId(ts)
       IN IF reload_timer # 0
          THEN timers' = ts /\ reload_timer' = 0
          ELSE /\ timers' = [ts EXCEPT ![id] = [st |-> "waiting", rem |-> coalesce_delay]]
               /\ reload_timer' = id
    /\ reload_pending' = TRUE
    /\ sinceReload' = 0
    /\ afterNow' = FALSE
    /\ owed' = TRUE
    /\ UNCHANGED <<configures, lastConfigure>>

\* services/bird.py reload(), lines 75-92: the locked body.
ServicesReload ==
    /\ \E i \in TimerIds : Cancel(timers, reload_timer)[i].st = "free"
    /\ LET ts == Cancel(timers, reload_timer)
           id == NewTimerId(ts)
       IN /\ timers' = [ts EXCEPT ![id] = [st |-> "waiting", rem |-> coalesce_delay]]
          /\ reload_timer' = id
    /\ reload_pending' = TRUE
    /\ sinceReload' = 0
    /\ afterNow' = FALSE
    /\ owed' = TRUE
    /\ UNCHANGED <<configures, lastConfigure>>

\* executor/bird.py reload(), lines 29-31: runs configure at once.
ExecutorReload ==
    /\ Configure("reload", 0)
    /\ UNCHANGED <<reload_timer, reload_pending, timers, sinceReload, afterNow>>

\* BirdExecutor.reload() of the generation in use.
BirdReload == IF variant = "workers" THEN ServicesReload ELSE ExecutorReload

\* A thread invokes reload(): it has not yet taken the lock.
CallReload(c) ==
    /\ callers[c] = "idle"
    /\ calls + nowCalls < MaxCalls
    /\ callers' = [callers EXCEPT ![c] = "reload"]
    /\ calls' = calls + 1
    /\ burstOK' = (burstOK /\ (calls = 0 \/ sinceCall < coalesce_delay))
    /\ sinceCall' = 0
    /\ UNCHANGED <<variant, reload_timer, reload_pending, timers, sinceReload,
                   afterNow, configures, lastConfigure, owed, nowCalls>>
    /\ UNCHANGED syncVars

\* The thread runs the body of reload() and returns.
ReloadBody(c) ==
    /\ callers[c] = "reload"
    /\ BirdReload
    /\ callers' = [callers EXCEPT ![c] = "idle"]
    /\ UNCHANGED <<variant, sinceCall, calls, burstOK, nowCalls>>
    /\ UNCHANGED syncVars

\* services/bird.py reload_now(), lines 118-122: the locked part.
CallReloadNow(c) ==
    /\ variant = "workers"
    /\ callers[c] = "idle"
    /\ calls + nowCalls < MaxCalls
    /\ timers' = Cancel(timers, reload_timer)
    /\ reload_timer' = 0
    /\ reload_pending' = FALSE
    /\ afterNow' = TRUE
    /\ nowCalls' = nowCalls + 1
    /\ callers' = [callers EXCEPT ![c] = "now_run"]
    /\ UNCHANGED <<variant, sinceCall, sinceReload, calls, burstOK, configures,
                   lastConfigure, owed>>
    /\ UNCHANGED syncVars

\* services/bird.py reload_now(), lines 124-134: configure, then return.
ReloadNowRun(c) ==
    /\ callers[c] = "now_run"
    /\ Configure("reload_now", sinceReload)
    /\ callers' = [callers EXCEPT ![c] = "idle"]
    /\ UNCHANGED <<variant, reload_timer, reload_pending, timers, sinceCall,
                   sinceReload, calls, burstOK, afterNow, nowCalls>>
    /\ UNCHANGED syncVars

\* threading.Timer.run(): the wait ended by timeout and the finished event
\* was found unset; the call of _execute_reload follows.
TimerWake(t) ==
    /\ timers[t].st = "waiting"
    /\ timers[t].rem = 0
    /\ timers' = [timers EXCEPT ![t].st = "fired"]
    /\ UNCHANGED <<variant, reload_timer, reload_pending, sinceCall, sinceReload,
                   calls, burstOK, afterNow, configures, lastConfigure, owed, callers,
                   nowCalls>>
    /\ UNCHANGED syncVars

\* services/bird.py _execute_reload(), lines 96-98: the locked part.
ExecuteReloadLocked(t) ==
    /\ timers[t].st = "fired"
    /\ reload_pending' = FALSE
    /\ reload_timer' = 0
    /\ timers' = [timers EXCEPT ![t].st = "exec"]
    /\ UNCHANGED <<variant, sinceCall, sinceReload, calls, burstOK, afterNow,
                   configures, lastConfigure, owed, callers, nowCalls>>
    /\ UNCHANGED syncVars

\* services/bird.py _execute_reload(), lines 100-110: configure; the timer
\* thread ends.
ExecuteReloadRun(t) ==
    /\ timers[t].st = "exec"
    /\ Configure("timer", sinceReload)
    /\ timers' = [timers EXCEPT ![t] = FreeTimer]
    /\ UNCHANGED <<variant, reload_timer, reload_pending, sinceCall, sinceReload,
                   calls, burstOK, afterNow, callers, nowCalls>>
    /\ UNCHANGED syncVars

\* One second passes.
Tick ==
    /\ ~(/\ \A t \in TimerIds : timers[t].st = "waiting" => timers[t].rem = 0
         /\ sinceCall = coalesce_delay
         /\ sinceReload = coalesce_delay)
    /\ timers' = [t \in TimerIds |->
                    IF timers[t].st = "waiting" /\ timers[t].rem > 0
                    THEN [timers[t] EXCEPT !.rem = @ - 1] ELSE timers[t]]
    /\ sinceCall' = Sat(sinceCall, coalesce_delay)
    /\ sinceReload' = Sat(sinceReload, coalesce_delay)
    /\ UNCHANGED <<variant, reload_timer, reload_pending, calls, burstOK, afterNow,
                   configures, lastConfigure, owed, callers, nowCalls>>
    /\ UNCHANGED syncVars

-----------------------------------------------------------------------------
(* The desired configuration.  An ASN a is written <<a \div 10000, a % 10000>>
   (the two quantities _calculate_listen_port reads), so that 4242420337 is
   <<424242, 337>>. *)

A1 == <<RangeA, 337>>

A2 == <<RangeB, 1>>

ASNs == {A1, A2}

\* a < b on ASNs
AsnLess(a, b) == a[1] < b[1] \/ (a[1] = b[1] /\ a[2] < b[2])

\* remote_as % 1000 in place of % 10000
CalculateListenPortShort(asn) ==
    IF asn[1] = RangeA THEN PortBaseA + (asn[2] % 1000)
    ELSE IF asn[1] = RangeB THEN PortBaseB + (asn[2] % 1000)
    ELSE PortBaseOther + (asn[2] % 1000)

\* _calculate_listen_port (workers/sync_daemon.py 138-145, daemon/sync.py 114-121)
CalculateListenPort(asn) ==
    IF asn[1] = RangeA THEN PortBaseA + asn[2]
    ELSE IF asn[1] = RangeB THEN PortBaseB + asn[2]
    ELSE PortBaseOther + asn[2]

SuppliedPort == 51820

\* PeerSpec: listen_port is the top-level key _add_peer reads (0: absent),
\* tunnel_port is tunnel.listen_port, which the renderer reads (0: absent),
\* rev stands for the rest of the peer (keys, endpoint, bgp addresses).
Peer(asn, lp, tt, tp, rev) ==
    [asn |-> asn, listen_port |-> lp, ttype |-> tt, tunnel_port |-> tp, rev |-> rev]

P1 == Peer(A1, 0, "wireguard", 0, 1)

P1r == Peer(A1, 0, "wireguard", 0, 2)

P2 == Peer(A2, SuppliedPort, "wireguard", SuppliedPort, 1)

\* The documents GET /api/v1/agent/config can return; version_hash "" is a
\* document without the key.  One version hash names one peer list.
Docs ==
    { [version_hash |-> "v1", peers |-> <<P1>>],
      [version_hash |-> "v2", peers |-> << >>],
      [version_hash |-> "v3", peers |-> <<P1, P2>>],
      [version_hash |-> "v4", peers |-> <<P1r>>],
      [version_hash |-> "", peers |-> <<P2>>] }

Ports == {CalculateListenPort(a) : a \in ASNs} \cup {SuppliedPort}

\* ControlPlaneClient.compute_config_hash: a digest of the peer list
ComputeConfigHash(doc) == <<"sha256", doc.peers>>

\* config.get("version_hash") or self.client.compute_config_hash(config)
RemoteHash(doc) ==
    IF doc.version_hash # "" THEN <<"given", doc.version_hash>> ELSE ComputeConfigHash(doc)

NoneHash == <<"None">>

\* {p["asn"] for p in peers}
AsnSet(peers) == {peers[i].asn : i \in 1..Len(peers)}

-----------------------------------------------------------------------------
(* Renderers and files *)

NoFile == [exists |-> FALSE, kind |-> "", asn |-> <<0, 0>>, port |-> 0, rev |-> 0]

\* WireGuardRenderer.render_interface: the text is determined by the
\* arguments handed to the template.
RenderInterface(peer) ==
    [exists |-> TRUE, kind |-> "wg", asn |-> peer.asn, port |-> peer.tunnel_port,
     rev |-> peer.rev]

\* BirdRenderer.render_peer
RenderPeer(peer) ==
    [exists |-> TRUE, kind |-> "bird", asn |-> peer.asn, port |-> 0, rev |-> peer.rev]

\* file_hash(path) in _add_peer, and the md5 of an expected text
FileHash(f) == IF f.exists THEN <<"md5", f>> ELSE <<"">>

-----------------------------------------------------------------------------
(* Executors.  They act on the record w of everything a sync cycle touches:
   wg and bird (files), ifc (links), fw4 and fw6 (tagged rules) and log (the
   executor calls made so far in this cycle). *)

Entry(op, asn, port, ok) == [op |-> op, asn |-> asn, port |-> port, ok |-> ok]

\* every executor call of the log returned True
AllOk(log) == \A i \in DOMAIN log : log[i].ok

NoFail == [asn |-> <<0, 0>>, step |-> "none"]

FailSteps == {"wg_write", "bird_write", "up_early", "up_late"}

Fails == {NoFail} \cup [asn : ASNs, step : FailSteps]

Hits(fail, asn, step) == fail.asn = asn /\ fail.step = step

\* FirewallExecutor._port_exists: `iptables -C` with a rule specification
\* that carries no comment match, so it matches untagged rules only.
PortExists(port) == port \in plainRules

\* FirewallExecutor.allow_port
AllowPort(w, port) ==
    IF PortExists(port)
    THEN [w EXCEPT !.log = Append(@, Entry("port_exists", <<0, 0>>, port, TRUE))]
    ELSE [w EXCEPT !.fw4[port] = @ + 1, !.fw6[port] = @ + 1,
                   !.log = Append(@, Entry("allow_port", <<0, 0>>, port, TRUE))]

\* FirewallExecutor.remove_port: each -D deletes one matching rule
RemovePort(w, port) ==
    [w EXCEPT !.fw4[port] = IF @ > 0 THEN @ - 1 ELSE 0,
              !.fw6[port] = IF @ > 0 THEN @ - 1 ELSE 0,
              !.log = Append(@, Entry("remove_port", <<0, 0>>, port, TRUE))]

\* WireGuardExecutor.write_interface
WriteInterface(w, asn, text, fail) ==
    IF Hits(fail, asn, "wg_write")
    THEN [w EXCEPT !.log = Append(@, Entry("write_interface", asn, 0, FALSE))]
    ELSE [w EXCEPT !.wg[asn] = text,
                   !.log = Append(@, Entry("write_interface", asn, 0, TRUE))]

\* WireGuardExecutor.up
Up(w, asn, fail) ==
    IF ~w.wg[asn].exists
    THEN [w EXCEPT !.log = Append(@, Entry("up", asn, 0, FALSE))]
    ELSE IF Hits(fail, asn, "up_early")
    THEN [w EXCEPT !.log = Append(@, Entry("up", asn, 0, FALSE))]
    ELSE IF Hits(fail, asn, "up_late")
    THEN [w EXCEPT !.ifc[asn] = IF @ = "absent" THEN "down" ELSE @,
                   !.log = Append(@, Entry("up", asn, 0, FALSE))]
    ELSE [w EXCEPT !.ifc[asn] = IF @ = "absent" THEN "up" ELSE @,
                   !.log = Append(@, Entry("up", asn, 0, TRUE))]

\* WireGuardExecutor.down
Down(w, asn) ==
    [w EXCEPT !.ifc[asn] = "absent", !.log = Append(@, Entry("down", asn, 0, TRUE))]

\* WireGuardExecutor.remove_interface
RemoveInterface(w, asn) ==
    [w EXCEPT !.wg[asn] = NoFile,
              !.log = Append(@, Entry("remove_interface", asn, 0, TRUE))]

\* BirdExecutor.write_peer
WritePeer(w, asn, text, fail) ==
    IF Hits(fail, asn, "bird_write")
    THEN [w EXCEPT !.log = Append(@, Entry("write_peer", asn, 0, FALSE))]
    ELSE [w EXCEPT !.bird[asn] = text,
                   !.log = Append(@, Entry("write_peer", asn, 0, TRUE))]

\* BirdExecutor.remove_peer
BirdRemovePeer(w, asn) ==
    [w EXCEPT !.bird[asn] = NoFile,
              !.log = Append(@, Entry("remove_peer", asn, 0, TRUE))]

-----------------------------------------------------------------------------
(* SyncDaemon *)

\* peer.get("listen_port") or self._calculate_listen_port(asn)
ListenPort(peer) ==
    IF peer.listen_port # 0 THEN peer.listen_port ELSE CalculateListenPort(peer.asn)

Begin(w, peer) == [w EXCEPT !.log = Append(@, Entry("add_peer", peer.asn, ListenPort(peer), TRUE))]

\* workers/sync_daemon.py _add_peer
WorkersAddPeer(w0, peer, fail) ==
    LET w == Begin(w0, peer)
        asn == peer.asn
        expected_wg == RenderInterface(peer)
        expected_bird == RenderPeer(peer)
        wg_needs_update == FileHash(w.wg[asn]) # FileHash(expected_wg)
        bird_needs_update == FileHash(w.bird[asn]) # FileHash(expected_bird)
        w1 == IF peer.ttype = "wireguard"
              THEN Up(IF wg_needs_update
                      THEN WriteInterface(AllowPort(w, ListenPort(peer)), asn, expected_wg, fail)
                      ELSE w,
                      asn, fail)
              ELSE w
    IN IF bird_needs_update THEN WritePeer(w1, asn, expected_bird, fail) ELSE w1

\* daemon/sync.py _add_peer (and _update_peer, which calls it)
DaemonAddPeer(w0, peer, fail) ==
    LET w == Begin(w0, peer)
        asn == peer.asn
        w1 == IF peer.ttype = "wireguard"
              THEN Up(WriteInterface(AllowPort(w, ListenPort(peer)), asn,
                                     RenderInterface(peer), fail),
                      asn, fail)
              ELSE w
    IN WritePeer(w1, asn, RenderPeer(peer), fail)

AddPeer(w, peer, fail) ==
    IF variant = "workers" THEN WorkersAddPeer(w, peer, fail) ELSE DaemonAddPeer(w, peer, fail)

\* _remove_peer (both generations)
RemovePeer(w0, asn) ==
    LET w == [w0 EXCEPT !.log = Append(@, Entry("remove_peer_begin", asn, CalculateListenPort(asn), TRUE))]
    IN BirdRemovePeer(RemoveInterface(Down(RemovePort(w, CalculateListenPort(asn)), asn), asn), asn)

\* Mutation of AddPeers: the loop ends at the first peer whose apply fails.
RECURSIVE AddPeersAbort(_, _, _, _)
AddPeersAbort(w, peers, i, fail) ==
    IF i > Len(peers) THEN w
    ELSE LET w1 == AddPeer(w, peers[i], fail)
         IN IF AllOk(w1.log) THEN AddPeersAbort(w1, peers, i + 1, fail) ELSE w1

\* for peer in config.get("peers", []): ...
RECURSIVE AddPeers(_, _, _, _)
AddPeers(w, peers, i, fail) ==
    IF i > Len(peers) THEN w ELSE AddPeers(AddPeer(w, peers[i], fail), peers, i + 1, fail)

\* Mutation of RemovePeers: no peer is retracted.
RemovePeersNone(w, asns) == w

\* for asn in current - new_peers: self._remove_peer(asn)
RECURSIVE RemovePeers(_, _)
RemovePeers(w, asns) ==
    IF asns = {} THEN w
    ELSE LET a == CHOOSE x \in asns : \A y \in asns : y = x \/ AsnLess(x, y)
         IN RemovePeers(RemovePeer(w, a), asns \ {a})

World == [wg |-> wgFiles, bird |-> birdFiles, ifc |-> ifaces, fw4 |-> fw4, fw6 |-> fw6,
          log |-> << >>]

\* The executor part of a cycle that applies: every desired peer, then the
\* peers of the applied snapshot that are no longer desired.
Reconcile(doc, fail) ==
    RemovePeers(AddPeers(World, doc.peers, 1, fail),
                AsnSet(state.applied_config.peers) \ AsnSet(doc.peers))

\* a Python dict is true when it has a key
DictTruthy(d) == DOMAIN d # {}

\* StateManager.update_applied_config
UpdateAppliedConfig(st, peers, config_hash) ==
    [config_version_hash |-> config_hash,
     applied_config |-> [peers |-> peers],
     rollback_snapshot |->
        IF DictTruthy(st.applied_config)
        THEN [set |-> TRUE, previous_hash |-> st.config_version_hash]
        ELSE st.rollback_snapshot]

\* StateManager._empty_state
EmptyState ==
    [config_version_hash |-> NoneHash,
     applied_config |-> [peers |-> << >>],
     rollback_snapshot |-> [set |-> FALSE, previous_hash |-> NoneHash]]

\* daemon/sync.py 55-64: some desired peer lacks one of its two files
NeedsRegeneration(doc) ==
    \E i \in 1..Len(doc.peers) :
        ~birdFiles[doc.peers[i].asn].exists \/ ~wgFiles[doc.peers[i].asn].exists

NoDoc == [version_hash |-> "unreachable", peers |-> << >>]

NoPeer == Peer(<<0, 0>>, 0, "", 0, 0)

EmptyWorld ==
    [wg |-> [a \in ASNs |-> NoFile], bird |-> [a \in ASNs |-> NoFile],
     ifc |-> [a \in ASNs |-> "absent"], fw4 |-> [p \in Ports |-> 0],
     fw6 |-> [p \in Ports |-> 0], log |-> << >>]

\* The record of the last call: what it was given, what it found (pre...) and
\* what it did.
NoCycle ==
    [kind |-> "none", result |-> "none", doc |-> NoDoc, fail |-> NoFail,
     preState |-> EmptyState, preWorld |-> EmptyWorld,
     preApplyOK |-> [a \in ASNs |-> NoPeer], preFail |-> NoFail, preMissing |-> FALSE,
     detected |-> FALSE, reloads |-> 0, log |-> << >>, hb |-> FALSE]

Observed(kind, doc, fail, result, detected, reloads, log) ==
    [kind |-> kind, result |-> result, doc |-> doc, fail |-> fail,
     preState |-> state, preWorld |-> World, preApplyOK |-> applyOK,
     preFail |-> lastFail,
     preMissing |-> NeedsRegeneration(doc),
     detected |-> detected, reloads |-> reloads, log |-> log,
     hb |-> (kind = "tick" /\ lastHeartbeat.sent)]

\* What one call of sync_config() leaves behind: the files, links and rules
\* of w, the state document st, and a reload request when reloads = 1.
Leave(w, st, reloads) ==
    /\ \A p \in Ports : w.fw4[p] <= MaxRules /\ w.fw6[p] <= MaxRules
    /\ wgFiles' = w.wg
    /\ birdFiles' = w.bird
    /\ ifaces' = w.ifc
    /\ fw4' = w.fw4
    /\ fw6' = w.fw6
    /\ state' = st
    /\ IF reloads = 1
       THEN BirdReload
       ELSE UNCHANGED <<reload_timer, reload_pending, timers, sinceReload, afterNow,
                        configures, lastConfigure, owed>>

\* Mutation of FetchFailed: a failed fetch is taken for an empty state.
FetchFailedClears(kind) ==
    /\ Leave(World, EmptyState, 0)
    /\ cycle' = Observed(kind, NoDoc, NoFail, "false", FALSE, 0, << >>)

\* ControlPlaneClient.get_config returned None: sync_config() returns False
FetchFailed(kind) ==
    /\ Leave(World, state, 0)
    /\ cycle' = Observed(kind, NoDoc, NoFail, "false", FALSE, 0, << >>)

\* daemon/sync.py sync_config(), lines 41-86, for the fetched document doc
DaemonSyncConfig(kind, doc, fail) ==
    LET remote_hash == RemoteHash(doc)
        w == Reconcile(doc, fail)
    IN IF doc.peers # << >>
       THEN \* line 59: no BirdExecutor has peers_dir, the read raises
            \* AttributeError in the first iteration
            /\ fail = NoFail
            /\ Leave(World, state, 0)
            /\ cycle' = Observed(kind, doc, NoFail, "raised", FALSE, 0, << >>)
       ELSE IF remote_hash = state.config_version_hash /\ ~NeedsRegeneration(doc)
       THEN /\ fail = NoFail
            /\ Leave(World, state, 0)
            /\ cycle' = Observed(kind, doc, NoFail, "true", FALSE, 0, << >>)
       ELSE /\ fail = NoFail \/ w # Reconcile(doc, NoFail)
            /\ Leave(w, UpdateAppliedConfig(state, doc.peers, remote_hash), 1)
            /\ cycle' = Observed(kind, doc, fail, "true", TRUE, 1, w.log)

\* Mutation of WorkersSyncConfig: an unchanged hash with all files present
\* ends the call before any peer is applied.
WorkersSyncConfigEarly(kind, doc, fail) ==
    LET remote_hash == RemoteHash(doc)
        w == Reconcile(doc, fail)
    IN IF remote_hash = state.config_version_hash /\ ~NeedsRegeneration(doc)
       THEN /\ fail = NoFail
            /\ Leave(World, state, 0)
            /\ cycle' = Observed(kind, doc, NoFail, "true", FALSE, 0, << >>)
       ELSE /\ fail = NoFail \/ w # Reconcile(doc, NoFail)
            /\ Leave(w, UpdateAppliedConfig(state, doc.peers, remote_hash), 1)
            /\ cycle' = Observed(kind, doc, fail, "true", TRUE, 1, w.log)

\* workers/sync_daemon.py sync_config(), lines 42-82, for the fetched document doc
WorkersSyncConfig(kind, doc, fail) ==
    LET remote_hash == RemoteHash(doc)
        w == Reconcile(doc, fail)
        changed == remote_hash # state.config_version_hash
    IN /\ fail = NoFail \/ w # Reconcile(doc, NoFail)
       /\ Leave(w, IF changed THEN UpdateAppliedConfig(state, doc.peers, remote_hash)
                   ELSE state,
                IF changed THEN 1 ELSE 0)
       /\ cycle' = Observed(kind, doc, fail, "true", changed, IF changed THEN 1 ELSE 0, w.log)

\* SyncDaemon.sync_config() of the generation in use
SyncConfig(kind) ==
    \E doc \in Docs \cup {NoDoc}, fail \in Fails :
        IF doc = NoDoc
        THEN fail = NoFail /\ FetchFailed(kind)
        ELSE IF variant = "workers"
        THEN WorkersSyncConfig(kind, doc, fail)
        ELSE DaemonSyncConfig(kind, doc, fail)

frozen == <<variant, plainRules, applyOK, sinceCall, calls, burstOK, callers, nowCalls,
            hostVars>>

\* run(): self._running = True; await self.sync_config(); counter = 0
RunInitialSync ==
    /\ pc = "start"
    /\ SyncConfig("initial")
    /\ lastFail' = cycle'.fail
    /\ syncs' = syncs + 1
    /\ running' = TRUE
    /\ counter' = 0
    /\ pc' = IF cycle'.result = "raised" THEN "crashed" ELSE "loop"
    /\ UNCHANGED <<frozen, lastHeartbeat>>

\* run(): while self._running: await asyncio.sleep(...)
RunLoop ==
    /\ pc = "loop"
    /\ pc' = IF running THEN "sleep" ELSE "stopped"
    /\ cycle' = NoCycle
    /\ lastHeartbeat' = [sent |-> FALSE, hash |-> NoneHash]
    /\ UNCHANGED <<frozen, reloaderVars, state, wgFiles, birdFiles, ifaces, fw4, fw6,
                   running, counter, syncs, lastFail>>

\* run(): counter += heartbeat_interval; await self.send_heartbeat();
\* if counter >= self.sync_interval: ...
RunHeartbeat ==
    /\ pc = "sleep"
    /\ counter' = counter + heartbeat_interval
    /\ lastHeartbeat' = [sent |-> TRUE, hash |-> state.config_version_hash]
    /\ pc' = IF counter' >= sync_interval THEN "tick_sync" ELSE "loop"
    /\ UNCHANGED <<frozen, reloaderVars, state, wgFiles, birdFiles, ifaces, fw4, fw6,
                   running, syncs, lastFail, cycle>>

\* run(): await self.sync_config(); counter = 0
RunTickSync ==
    /\ pc = "tick_sync"
    /\ syncs < MaxSyncs
    /\ SyncConfig("tick")
    /\ lastFail' = cycle'.fail
    /\ syncs' = syncs + 1
    /\ counter' = 0
    /\ pc' = IF cycle'.result = "raised" THEN "crashed" ELSE "loop"
    /\ UNCHANGED <<frozen, running, lastHeartbeat>>

\* SyncDaemon.stop(): clears the flag.  run() reads the flag only at the top
\* of its loop, so the call is taken at that point.
Stop ==
    /\ pc = "loop"
    /\ running
    /\ running' = FALSE
    /\ UNCHANGED <<frozen, reloaderVars, state, wgFiles, birdFiles, ifaces, fw4, fw6,
                   pc, counter, lastHeartbeat, syncs, lastFail, cycle>>

\* Someone else deletes a peer config file (manual deletion, a volume
\* that was reinitialised).  sync_config() is the only reader of the files,
\* so the deletion is taken in the sleep that precedes a sync.
EnvDeleteFile(asn, kind) ==
    /\ pc = "sleep"
    /\ counter + heartbeat_interval >= sync_interval
    /\ IF kind = "wg"
       THEN wgFiles[asn].exists /\ wgFiles' = [wgFiles EXCEPT ![asn] = NoFile]
            /\ UNCHANGED birdFiles
       ELSE birdFiles[asn].exists /\ birdFiles' = [birdFiles EXCEPT ![asn] = NoFile]
            /\ UNCHANGED wgFiles
    /\ cycle' = NoCycle
    /\ UNCHANGED <<frozen, reloaderVars, state, ifaces, fw4, fw6, pc, running, counter,
                   lastHeartbeat, syncs, lastFail>>

\* One call of _add_peer(peer) on its own (apply_peer)
ApplyPeer(peer, fail) ==
    LET w == AddPeer(World, peer, fail)
    IN /\ fail = NoFail \/ w # AddPeer(World, peer, NoFail)
       /\ Leave(w, state, 0)
       /\ applyOK' = [applyOK EXCEPT ![peer.asn] = IF AllOk(w.log) THEN peer ELSE NoPeer]
       /\ cycle' = Observed("apply", [version_hash |-> "", peers |-> <<peer>>], fail,
                            "none", FALSE, 0, w.log)
       /\ UNCHANGED <<variant, plainRules, sinceCall, calls, burstOK, callers, nowCalls,
                      pc, running, counter, lastHeartbeat, syncs, lastFail, hostVars>>

\* One call of _remove_peer(asn) on its own (retract_peer)
RetractPeer(asn) ==
    LET w == RemovePeer(World, asn)
    IN /\ Leave(w, state, 0)
       /\ applyOK' = [applyOK EXCEPT ![asn] = NoPeer]
       /\ cycle' = Observed("retract", NoDoc, NoFail, "none", FALSE, 0, w.log)
       /\ UNCHANGED <<variant, plainRules, sinceCall, calls, burstOK, callers, nowCalls,
                      pc, running, counter, lastHeartbeat, syncs, lastFail, hostVars>>

-----------------------------------------------------------------------------
(* Startup (main) and the loopback device.  An address is the text that    *)
(* `ip addr show` prints for it: family, the leading groups, the last      *)
(* group and the prefix length.                                            *)

OverlayBase4 == "172.22.188"

OverlayBase6 == "fd00:4242:7777"

PrefixLen4 == 26

PrefixLen6 == 48

NodeIdMax == 62

\* max_host_id = (2 ** (32 - prefix_len)) - 2
MaxHostId == 2 ^ (32 - PrefixLen4) - 2

Addr(fam, base, host, len) == [fam |-> fam, base |-> base, host |-> host, len |-> len]

\* ipv4_node = f"{'.'.join(ipv4_parts[:-1])}.{node_id}", added as /32
Ipv4Node(n) == Addr(4, OverlayBase4, n, 32)

\* ipv6_node = f"{ipv6_base}::{node_id}", added as /128
Ipv6Node(n) == Addr(6, OverlayBase6, n, 128)

\* self.dn42_ipv4_prefix
Ipv4Prefix == Addr(4, OverlayBase4, 0, PrefixLen4)

\* self.dn42_ipv6_prefix
Ipv6Prefix == Addr(6, OverlayBase6, 0, PrefixLen6)

\* The address lies inside the overlay prefixes (the /26 or the /48)
InOverlay(a) ==
    \/ a.fam = 4 /\ a.base = OverlayBase4 /\ a.host \in 0..(2 ^ (32 - PrefixLen4) - 1)
    \/ a.fam = 6 /\ a.base = OverlayBase6

\* The decimal text of h starts the decimal text of g
DecPrefix(h, g) ==
    \/ h = g
    \/ g >= 10 /\ g \div 10 = h
    \/ g >= 100 /\ g \div 100 = h

\* _add_address: `addr_only in check.stdout`, a substring test on the listing
Present(a, dev) ==
    \E b \in dev : b.fam = a.fam /\ b.base = a.base /\ DecPrefix(a.host, b.host)

\* _cleanup_stale_addresses: the addresses it deletes for node n
Stale(dev, n) ==
    {a \in dev :
        \/ a.fam = 4 /\ a.len = 32 /\ a.base = OverlayBase4 /\ a.host # n
        \/ a.fam = 6 /\ a.len = 128 /\ a.base = OverlayBase6 /\ a.host # n}

CleanupStaleAddresses(dev, n) == dev \ Stale(dev, n)

\* _add_address(address): the device afterwards
AddAddress(dev, a) == IF Present(a, dev) THEN dev ELSE dev \cup {a}

\* The addresses list of setup_loopback(), by generation
Addresses(impl, n) ==
    IF impl = "daemon"
    THEN <<Ipv4Prefix, Ipv4Node(n), Ipv6Node(n)>>
    ELSE <<Ipv4Node(n), Ipv6Node(n)>>

RECURSIVE AddAll(_, _)
\* for addr, desc in addresses: self._add_address(addr, desc)
AddAll(w, as) ==
    IF as = << >> THEN w
    ELSE AddAll([dev |-> AddAddress(w.dev, Head(as)),
                 adds |-> IF Present(Head(as), w.dev) THEN w.adds
                          ELSE w.adds \cup {Head(as)}],
                Tail(as))

\* setup_loopback(node_id): the device afterwards, what was added and deleted
SetupLoopback(impl, dev, n) ==
    IF n < 1 \/ n > MaxHostId
    THEN [ret |-> FALSE, dev |-> dev, adds |-> {}, dels |-> {}]
    ELSE LET cleaned == CleanupStaleAddresses(dev, n)
             w == AddAll([dev |-> cleaned, adds |-> {}], Addresses(impl, n))
         IN [ret |-> TRUE, dev |-> w.dev, adds |-> w.adds, dels |-> Stale(dev, n)]

NoCall == [calls |-> 0, n |-> 0, ret |-> FALSE, pre |-> {}, adds |-> {}, dels |-> {},
           prev_n |-> 0]

\* The ghost record of one setup_loopback(n) call
Called(n, r) ==
    [calls |-> lo.calls + 1, n |-> n, ret |-> r.ret, pre |-> dummy0, adds |-> r.adds,
     dels |-> r.dels, prev_n |-> lo.n]

InvalidNodeIdZeroOK(id) == id < 0 \/ id > NodeIdMax

\* `not node_id or node_id < 1 or node_id > 62` (None and 0 are both falsy)
InvalidNodeId(id) == id = 0 \/ id < 1 \/ id > NodeIdMax

\* What register_node() returned: None (ok FALSE), or the control plane's
\* answer with its numeric_node_id (0 when the answer has none)
Reply(ok, id) == [ok |-> ok, numeric_node_id |-> id]

NoReply == Reply(FALSE, 0)

\* `if registration: ... if cp_node_id and 1 <= cp_node_id <= 62`
UsableReply(reply) ==
    /\ reply.ok
    /\ reply.numeric_node_id # 0
    /\ 1 <= reply.numeric_node_id
    /\ reply.numeric_node_id <= NodeIdMax

\* config.node_id as the configuration file holds it (0 when it holds none)
ConfigIds == {-1, 0, 4, 63}

Replies == {NoReply} \cup {Reply(TRUE, i) : i \in {0, 7, 63}}

NodeIds == {4, 7}

AddrUniverse ==
    {Ipv4Node(n) : n \in NodeIds} \cup {Ipv6Node(n) : n \in NodeIds}
        \cup {Ipv4Prefix, Addr(4, OverlayBase4, 100, 32), Addr(4, OverlayBase4, 40, 26),
              Addr(4, "10.0.0", 1, 32), Addr(6, "fd00:1234:5678", 1, 128)}

MaxBoots == 2

\* A process that has just loaded its configuration; cfg0, dev0 and calls0
\* remember what it started from
BootStart(cfg, n, dev, calls0) ==
    [pc |-> "start", boots |-> n, config_id |-> cfg, node_id |-> 0, reply |-> NoReply,
     cfg0 |-> cfg, dev0 |-> dev, calls0 |-> calls0, exit |-> 0, mesh |-> FALSE]

\* main(): from the registration to the first mesh sync
MainStartup(reply, persisted) ==
    LET id == IF UsableReply(reply) THEN reply.numeric_node_id ELSE boot.config_id
        cfg == IF UsableReply(reply) /\ persisted THEN reply.numeric_node_id
               ELSE boot.config_id
        r == SetupLoopback(variant, dummy0, id)
    IN /\ boot.pc = "start"
       /\ IF InvalidNodeId(id)
          THEN /\ boot' = [boot EXCEPT !.pc = "exited", !.node_id = id, !.reply = reply,
                                       !.config_id = cfg, !.exit = 1]
               /\ UNCHANGED <<dummy0, lo>>
          ELSE /\ boot' = [boot EXCEPT !.pc = "running", !.node_id = id, !.reply = reply,
                                       !.config_id = cfg, !.mesh = TRUE]
               /\ dummy0' = r.dev
               /\ lo' = Called(id, r)
       /\ UNCHANGED <<variant, reloaderVars, threadVars, agentVars, storeVars, apiVars,
                      extVars>>

\* The process ends and the service manager starts it again
Restart ==
    /\ boot.pc \in {"exited", "running"}
    /\ boot.boots < MaxBoots
    /\ boot' = BootStart(boot.config_id, boot.boots + 1, dummy0, lo.calls)
    /\ UNCHANGED <<variant, reloaderVars, threadVars, agentVars, dummy0, lo, storeVars,
                   apiVars, extVars>>

-----------------------------------------------------------------------------
(* The state store on disk.  json.dump writes a document in DumpChunks     *)
(* pieces; a file is complete when all of them are in it.                  *)

DumpChunks == 2

MaxSaves == 3

MaxCrashes == 2

File(doc, written) == [exists |-> TRUE, doc |-> doc, written |-> written]

AbsentFile == [exists |-> FALSE, doc |-> EmptyState, written |-> 0]

\* load() of a process that has nothing memoized: json.load fails on a
\* partial document and load() falls back to _empty_state()
ReadFile(f) ==
    IF f.exists /\ f.written = DumpChunks THEN f.doc ELSE EmptyState

NoUpdate == [n |-> 0, pre |-> EmptyState, h |-> NoneHash, post |-> EmptyState]

StoreStart ==
    [pc |-> "idle", disk |-> AbsentFile, temp |-> AbsentFile, old |-> AbsentFile,
     new |-> EmptyState, saves |-> 0, crashes |-> 0, at |-> "none", fresh |-> FALSE,
     upd |-> NoUpdate]

otherVars == <<variant, reloaderVars, threadVars, worldVars, bootVars, apiVars, extVars>>

\* update_applied_config(peers, config_hash), up to its call of save()
UpdateAppliedConfigCall(doc) ==
    LET post == UpdateAppliedConfig(state, doc.peers, RemoteHash(doc))
    IN /\ store.pc = "idle"
       /\ store.saves < MaxSaves
       /\ state' = post
       /\ store' = [store EXCEPT !.pc = "save", !.old = store.disk, !.new = post,
                                 !.saves = @ + 1, !.fresh = FALSE,
                                 !.upd = [n |-> @.n + 1, pre |-> state,
                                          h |-> RemoteHash(doc), post |-> post]]
       /\ UNCHANGED otherVars

\* Mutation of SaveOpenTemp: the document is written over state_path itself.
SaveOpenInPlace ==
    /\ store.pc = "save"
    /\ store' = [store EXCEPT !.pc = "dump", !.disk = File(store.new, 0),
                              !.temp = File(store.new, 0)]
    /\ UNCHANGED <<state, otherVars>>

\* save(): temp = state_path.with_suffix(".tmp"); open(temp, "w")
SaveOpenTemp ==
    /\ store.pc = "save"
    /\ store' = [store EXCEPT !.pc = "dump", !.temp = File(store.new, 0)]
    /\ UNCHANGED <<state, otherVars>>

\* save(): json.dump(self._state, f, indent=2), one piece
SaveDump ==
    /\ store.pc = "dump"
    /\ store.temp.written < DumpChunks
    /\ store' = [store EXCEPT !.temp.written = @ + 1]
    /\ UNCHANGED <<state, otherVars>>

\* save(): os.replace(temp, self.state_path); return True
SaveReplace ==
    /\ store.pc = "dump"
    /\ store.temp.written = DumpChunks
    /\ store' = [store EXCEPT !.pc = "idle", !.disk = store.temp, !.temp = AbsentFile]
    /\ UNCHANGED <<state, otherVars>>

\* save(): except Exception: return False (the temporary file stays)
SaveError ==
    /\ store.pc \in {"save", "dump"}
    /\ store' = [store EXCEPT !.pc = "idle"]
    /\ UNCHANGED <<state, otherVars>>

\* The process dies, at any step
Crash ==
    /\ store.pc \in {"idle", "save", "dump"}
    /\ store.crashes < MaxCrashes
    /\ store' = [store EXCEPT !.pc = "down", !.crashes = @ + 1, !.at = store.pc]
    /\ UNCHANGED <<state, otherVars>>

\* The first load() of the next process
Load ==
    /\ store.pc = "down"
    /\ state' = ReadFile(store.disk)
    /\ store' = [store EXCEPT !.pc = "idle", !.fresh = TRUE]
    /\ UNCHANGED otherVars

-----------------------------------------------------------------------------
(* The operator API and the reconciler on one asyncio event loop.  A task  *)
(* runs from one await to the next without interruption; loop names the    *)
(* task that is running.  Both work on the peer P1.                        *)

MaxRestarts == 2

MaxPasses == 2

Outcomes == {"ok", "error", "timeout"}

RestartOrder == <<"bgp_disable", "wg_down", "wg_up", "bgp_enable">>

Issued(step, out) == [step |-> step, out |-> out]

runVars == <<plainRules, pc, running, counter, lastHeartbeat, syncs, applyOK, lastFail,
             cycle>>

restVars == <<variant, reloaderVars, threadVars, state, runVars, bootVars, storeVars,
              extVars>>

fileVars == <<wgFiles, birdFiles, fw4, fw6>>

ApiInit ==
    /\ loop = "none"
    /\ api = [pc |-> "idle", log |-> << >>, n |-> 0]
    /\ rec = [pc |-> "sleep", op |-> "none", steps |-> << >>, done |-> 0, passes |-> 0]
    /\ bgp = "enabled"

\* POST /peers/restart arrives: data = await request.json()
RestartRequest ==
    /\ api.pc = "idle"
    /\ api.n < MaxRestarts
    /\ api' = [api EXCEPT !.pc = "parsing"]
    /\ UNCHANGED <<restVars, fileVars, ifaces, loop, rec, bgp>>

\* The body has arrived and the handler is resumed; without a peer_name it
\* answers 400 at once
RestartResume(named) ==
    /\ api.pc = "parsing"
    /\ loop = "none"
    /\ IF named
       THEN /\ api' = [api EXCEPT !.pc = "bgp_disable", !.log = << >>]
            /\ loop' = "api"
       ELSE /\ api' = [api EXCEPT !.pc = "idle"]
            /\ UNCHANGED loop
    /\ UNCHANGED <<restVars, fileVars, ifaces, rec, bgp>>

\* Mutation of RestartBgpDisable: the command is awaited, which hands the
\* event loop to other tasks.
RestartBgpDisableAwait(out) ==
    /\ loop = "api"
    /\ api.pc = "bgp_disable"
    /\ api' = [api EXCEPT !.pc = "wg_down", !.log = Append(@, Issued("bgp_disable", out))]
    /\ bgp' = IF out = "ok" THEN "disabled" ELSE bgp
    /\ loop' = "none"
    /\ UNCHANGED <<restVars, fileVars, ifaces, rec>>

\* 1. bgp_down = birdc(f"disable {peer_name}")
RestartBgpDisable(out) ==
    /\ loop = "api"
    /\ api.pc = "bgp_disable"
    /\ api' = [api EXCEPT !.pc = "wg_down", !.log = Append(@, Issued("bgp_disable", out))]
    /\ bgp' = IF out = "ok" THEN "disabled" ELSE bgp
    /\ UNCHANGED <<restVars, fileVars, ifaces, loop, rec>>

\* Mutation of RestartWgDown: a failed step ends the restart.
RestartWgDownAbort(out) ==
    /\ loop = "api"
    /\ api.pc = "wg_down"
    /\ out = "ok" => ifaces[A1] # "absent"
    /\ api' = [api EXCEPT !.pc = IF out = "ok" THEN "wg_up" ELSE "respond",
                          !.log = Append(@, Issued("wg_down", out))]
    /\ ifaces' = IF out = "ok" THEN [ifaces EXCEPT ![A1] = "down"] ELSE ifaces
    /\ UNCHANGED <<restVars, fileVars, loop, rec, bgp>>

\* 2. wg_down = simple_run(f"ip link set {wg_interface} down", timeout=15)
RestartWgDown(out) ==
    /\ loop = "api"
    /\ api.pc = "wg_down"
    /\ out = "ok" => ifaces[A1] # "absent"
    /\ api' = [api EXCEPT !.pc = "wg_up", !.log = Append(@, Issued("wg_down", out))]
    /\ ifaces' = IF out = "ok" THEN [ifaces EXCEPT ![A1] = "down"] ELSE ifaces
    /\ UNCHANGED <<restVars, fileVars, loop, rec, bgp>>

\* 3. wg_up = simple_run(f"ip link set {wg_interface} up", timeout=15)
RestartWgUp(out) ==
    /\ loop = "api"
    /\ api.pc = "wg_up"
    /\ out = "ok" => ifaces[A1] # "absent"
    /\ api' = [api EXCEPT !.pc = "bgp_enable", !.log = Append(@, Issued("wg_up", out))]
    /\ ifaces' = IF out = "ok" THEN [ifaces EXCEPT ![A1] = "up"] ELSE ifaces
    /\ UNCHANGED <<restVars, fileVars, loop, rec, bgp>>

\* 4. bgp_up = birdc(f"enable {peer_name}")
RestartBgpEnable(out) ==
    /\ loop = "api"
    /\ api.pc = "bgp_enable"
    /\ api' = [api EXCEPT !.pc = "respond", !.log = Append(@, Issued("bgp_enable", out))]
    /\ bgp' = IF out = "ok" THEN "enabled" ELSE bgp
    /\ UNCHANGED <<restVars, fileVars, ifaces, loop, rec>>

\* return web.json_response({"result": "restarted", "steps": results})
RestartRespond ==
    /\ loop = "api"
    /\ api.pc = "respond"
    /\ api' = [api EXCEPT !.pc = "idle", !.n = @ + 1]
    /\ loop' = "none"
    /\ UNCHANGED <<restVars, fileVars, ifaces, rec, bgp>>

\* The executor calls of _add_peer(peer), in order
AddSteps(peer) ==
    LET wg_needs_update == FileHash(wgFiles[peer.asn]) # FileHash(RenderInterface(peer))
        bird_needs_update == FileHash(birdFiles[peer.asn]) # FileHash(RenderPeer(peer))
    IN IF variant = "workers"
       THEN (IF peer.ttype = "wireguard"
             THEN (IF wg_needs_update THEN <<"allow_port", "write_interface">> ELSE << >>)
                      \o <<"up">>
             ELSE << >>)
                \o (IF bird_needs_update THEN <<"write_peer">> ELSE << >>)
       ELSE (IF peer.ttype = "wireguard"
             THEN <<"allow_port", "write_interface", "up">>
             ELSE << >>) \o <<"write_peer">>

\* The executor calls of _remove_peer(asn), in order
RemoveSteps == <<"remove_port", "down", "remove_interface", "remove_peer">>

\* One executor call of the pass
StepEffect(w, step, peer) ==
    CASE step = "allow_port" -> AllowPort(w, ListenPort(peer))
      [] step = "write_interface" -> WriteInterface(w, peer.asn, RenderInterface(peer), NoFail)
      [] step = "up" -> Up(w, peer.asn, NoFail)
      [] step = "write_peer" -> WritePeer(w, peer.asn, RenderPeer(peer), NoFail)
      [] step = "remove_port" -> RemovePort(w, CalculateListenPort(peer.asn))
      [] step = "down" -> Down(w, peer.asn)
      [] step = "remove_interface" -> RemoveInterface(w, peer.asn)
      [] step = "remove_peer" -> BirdRemovePeer(w, peer.asn)

\* sync_config(): config = await self.client.get_config()
PassFetch ==
    /\ rec.pc = "sleep"
    /\ rec.passes < MaxPasses
    /\ rec' = [rec EXCEPT !.pc = "fetching"]
    /\ UNCHANGED <<restVars, fileVars, ifaces, loop, api, bgp>>

\* The document has arrived and sync_config() is resumed: it enters
\* _add_peer(P1) when the document lists the peer, _remove_peer otherwise
PassResume(op) ==
    /\ rec.pc = "fetching"
    /\ loop = "none"
    /\ rec' = [rec EXCEPT !.pc = "run", !.op = op, !.done = 0,
                          !.steps = IF op = "apply" THEN AddSteps(P1) ELSE RemoveSteps]
    /\ loop' = "sync"
    /\ UNCHANGED <<restVars, fileVars, ifaces, api, bgp>>

\* The next executor call of _add_peer / _remove_peer
PassStep ==
    LET w == StepEffect(World, Head(rec.steps), P1)
    IN /\ loop = "sync"
       /\ rec.pc = "run"
       /\ rec.steps # << >>
       /\ \A p \in Ports : w.fw4[p] <= MaxRules /\ w.fw6[p] <= MaxRules
       /\ wgFiles' = w.wg
       /\ birdFiles' = w.bird
       /\ ifaces' = w.ifc
       /\ fw4' = w.fw4
       /\ fw6' = w.fw6
       /\ rec' = [rec EXCEPT !.steps = Tail(@), !.done = @ + 1]
       /\ UNCHANGED <<restVars, loop, api, bgp>>

\* sync_config() returns and run() awaits its sleep
PassEnd ==
    /\ loop = "sync"
    /\ rec.pc = "run"
    /\ rec.steps = << >>
    /\ rec' = [rec EXCEPT !.pc = "sleep", !.passes = @ + 1]
    /\ loop' = "none"
    /\ UNCHANGED <<restVars, fileVars, ifaces, api, bgp>>

-----------------------------------------------------------------------------
(* The operator API: blacklist and maintenance mode (api/server.py).  A    *)
(* handler has no await after it has read the request body, so it is one   *)
(* step.  The blacklist file is the bracketed list save_blacklist writes:  *)
(* each number as its sign and its digits.                                 *)

MaxOps == 3

AsnInputs == {-1, 0, 64512, 65001}

\* The "asn" member of a request body: absent, a text that is no number, a
\* JSON number, or a text of digits
Body(kind, v) == [kind |-> kind, v |-> v]

Bodies ==
    {Body("missing", 0), Body("text", 0), Body("digits", 0)}
        \cup {Body("int", i) : i \in AsnInputs}

\* `if not asn`
Falsy(body) == body.kind = "missing" \/ (body.kind = "int" /\ body.v = 0)

\* int(asn) raises ValueError
NotAnInt(body) == body.kind = "text"

\* str(a): a minus sign for a negative number, then the digits
Format(a) == [neg |-> a < 0, digits |-> IF a < 0 THEN 0 - a ELSE a]

RECURSIVE SortedSeq(_)
\* sorted(asns)
SortedSeq(S) ==
    IF S = {} THEN << >>
    ELSE LET m == CHOOSE x \in S : \A y \in S : x <= y
         IN <<m>> \o SortedSeq(S \ {m})

\* The list save_blacklist writes between the brackets (none for an empty set)
Written(S) ==
    [exists |-> TRUE, items |-> [i \in 1..Cardinality(S) |-> Format(SortedSeq(S)[i])]]

NoBlacklist == [exists |-> FALSE, items |-> << >>]

\* load_blacklist(): re.search(r'\[(\d+(?:,\s*\d+)*)\]') matches a bracket
\* that holds nothing but digit groups
LoadBlacklist(f) ==
    IF ~f.exists \/ f.items = << >> THEN {}
    ELSE IF \E i \in DOMAIN f.items : f.items[i].neg THEN {}
    ELSE {f.items[i].digits : i \in DOMAIN f.items}

NoRequest == [op |-> "none", asn |-> 0, result |-> "none", saved |-> {}, loaded |-> {}]

OpsStart ==
    [blacklist |-> NoBlacklist, maintenance |-> FALSE, flag |-> "absent", n |-> 0,
     since |-> coalesce_delay, burst |-> TRUE, cfg |-> 0, last |-> NoRequest]

\* One operator mutation that reloads BIRD, as the burst sees it
Mutated(o) ==
    [o EXCEPT !.n = @ + 1, !.burst = @ /\ (o.n = 0 \/ o.since < coalesce_delay),
              !.since = 0, !.cfg = @ + 1]

\* result = birdc("configure"): the handler runs the command itself
ApiConfigure == Configure("api", 0)

\* save_blacklist(asns), called by a handler that answers result when the
\* save succeeded; last.loaded is what load_blacklist() returns afterwards
SaveBlacklist(S, ok, op, asn, result) ==
    IF ok
    THEN /\ ops' = [Mutated(ops) EXCEPT
                        !.blacklist = Written(S),
                        !.last = [op |-> op, asn |-> asn, result |-> result, saved |-> S,
                                  loaded |-> LoadBlacklist(Written(S))]]
         /\ ApiConfigure
    ELSE /\ ops' = [ops EXCEPT !.last = [op |-> op, asn |-> asn, result |-> "500",
                                         saved |-> S, loaded |-> LoadBlacklist(ops.blacklist)]]
         /\ UNCHANGED <<configures, lastConfigure, owed>>

\* The answer of a handler that saves nothing
Answer(op, asn, result) ==
    /\ ops' = [ops EXCEPT !.last = [op |-> op, asn |-> asn, result |-> result,
                                    saved |-> {}, loaded |-> LoadBlacklist(ops.blacklist)]]
    /\ UNCHANGED <<configures, lastConfigure, owed>>

opsFrame == <<variant, reload_timer, reload_pending, timers, sinceCall, sinceReload, calls,
              burstOK, afterNow, threadVars, agentVars, bootVars, storeVars, apiVars,
              proc, prober, web, portCalc, lateVars, hist, mgr>>

\* POST /blacklist/add
AddToBlacklist(body, ok) ==
    /\ ops.n < MaxOps
    /\ IF Falsy(body) \/ NotAnInt(body)
       THEN Answer("add", 0, "400")
       ELSE IF body.v \in LoadBlacklist(ops.blacklist)
       THEN Answer("add", body.v, "already_blocked")
       ELSE SaveBlacklist(LoadBlacklist(ops.blacklist) \cup {body.v}, ok, "add", body.v,
                          "added")
    /\ UNCHANGED opsFrame

\* POST /blacklist/remove
RemoveFromBlacklist(body, ok) ==
    /\ ops.n < MaxOps
    /\ IF Falsy(body) \/ NotAnInt(body)
       THEN Answer("remove", 0, "400")
       ELSE IF body.v \notin LoadBlacklist(ops.blacklist)
       THEN Answer("remove", body.v, "not_found")
       ELSE SaveBlacklist(LoadBlacklist(ops.blacklist) \ {body.v}, ok, "remove", body.v,
                          "removed")
    /\ UNCHANGED opsFrame

\* POST /maintenance/start
StartMaintenance(ok) ==
    /\ ops.n < MaxOps
    /\ IF ops.maintenance
       THEN Answer("start", 0, "already_in_maintenance")
       ELSE IF ~ok
       THEN Answer("start", 0, "500")
       ELSE /\ ops' = [Mutated(ops) EXCEPT !.flag = "true", !.maintenance = TRUE,
                           !.last = [NoRequest EXCEPT !.op = "start",
                                                      !.result = "maintenance_started"]]
            /\ ApiConfigure
    /\ UNCHANGED opsFrame

\* POST /maintenance/stop
StopMaintenance(ok) ==
    /\ ops.n < MaxOps
    /\ IF ~ops.maintenance
       THEN Answer("stop", 0, "not_in_maintenance")
       ELSE IF ~ok
       THEN Answer("stop", 0, "500")
       ELSE /\ ops' = [Mutated(ops) EXCEPT !.flag = "false", !.maintenance = FALSE,
                           !.last = [NoRequest EXCEPT !.op = "stop",
                                                      !.result = "maintenance_stopped"]]
            /\ ApiConfigure
    /\ UNCHANGED opsFrame

\* The agent process is started again: api/server.py is loaded anew and line
\* 684 sets _maintenance_mode = False; nothing reads maintenance.conf
AgentRestart ==
    /\ ops.last.op # "restart"
    /\ ops' = [ops EXCEPT !.maintenance = FALSE, !.last = [NoRequest EXCEPT !.op = "restart"]]
    /\ UNCHANGED <<opsFrame, configures, lastConfigure, owed>>

\* A second passes without an operator request
OperatorTick ==
    /\ ops.since < coalesce_delay
    /\ ops' = [ops EXCEPT !.since = @ + 1]
    /\ UNCHANGED <<opsFrame, configures, lastConfigure, owed>>

-----------------------------------------------------------------------------
(* main.py: what follows run().  The Timer threads of services/bird.py are *)
(* daemon threads (line 87): the interpreter does not wait for them when   *)
(* the main thread ends.                                                   *)

ProcStart == [pc |-> "up", lost |-> FALSE]

\* main(), lines 187-196: run() returned or raised; the finally block awaits
\* api_runner.cleanup() and client.close(), and main() ends
MainFinally ==
    /\ proc.pc = "up"
    /\ pc \in {"stopped", "crashed"}
    /\ proc' = [proc EXCEPT !.pc = "closed"]
    /\ UNCHANGED <<coreVars, ops, prober, web, portCalc, lateVars, hist, mgr>>

\* asyncio.run(main()) returns and the interpreter exits: a Timer thread that
\* has not finished its configure dies with the process
ProcessExit ==
    /\ proc.pc = "closed"
    /\ proc' = [pc |-> "exited", lost |-> \E t \in TimerIds : timers[t].st # "free"]
    /\ UNCHANGED <<coreVars, ops, prober, web, portCalc, lateVars, hist, mgr>>

\* A Timer thread of the reloader, while the process lives
TimerThread(t) ==
    /\ proc.pc # "exited"
    /\ \/ TimerWake(t)
       \/ ExecuteReloadLocked(t)
       \/ ExecuteReloadRun(t)

\* sync_config() calls of the run loop that the shutdown runs follow
MaxShutdownSyncs == 2

\* One more periodic sync_config() of the run loop
ShutdownTickSync ==
    /\ syncs < MaxShutdownSyncs
    /\ RunTickSync

\* Time passes while the process lives
Elapse ==
    /\ proc.pc # "exited"
    /\ Tick

-----------------------------------------------------------------------------
(* community/latency_probe.py.  An RTT is the exact decimal num / 10^exp   *)
(* milliseconds: a ping average has exp = 0 here and each smoothing step   *)
(* adds one decimal place, so the smoothed values are those of the real    *)
(* arithmetic.                                                             *)

\* probe cycles started
MaxCycles == 2

\* probe_now() calls
MaxNow == 1

\* the peers the operator adds to the prober
ProbeAsns == {64512, 65001}

\* ping averages, in ms
Samples == {5, 30, 32, 3000}

\* PeerInfo.last_tier = None
NoneTier == -1

\* ewma_alpha = 0.3, in tenths
EwmaAlpha == 3

Rtt(num, exp) == [num |-> num, exp |-> exp]

\* the threshold table of latency_to_tier, in tenths of a millisecond
Thresholds == <<27, 73, 200, 550, 1480, 4030, 10970, 29810>>

\* latency_to_tier(rtt): the number of thresholds rtt has reached
LatencyToTier(r) ==
    Cardinality({i \in DOMAIN Thresholds : r.num * 10 >= Thresholds[i] * 10 ^ r.exp})

\* self.ewma_alpha * result.rtt_ms + (1 - self.ewma_alpha) * peer.last_rtt
Ewma(ms, last) ==
    Rtt(EwmaAlpha * ms * 10 ^ last.exp + (10 - EwmaAlpha) * last.num, last.exp + 1)

\* PeerInfo(asn, endpoint); fresh marks an object created while a gather
\* whose tasks hold the previous object of that ASN is in flight
NewPeer(fresh) ==
    [tracked |-> TRUE, fresh |-> fresh, has_rtt |-> FALSE, last_rtt |-> Rtt(0, 0),
     last_tier |-> NoneTier, probe_count |-> 0, fail_count |-> 0]

\* an ASN that is not in self.peers
NoPeerInfo == [NewPeer(FALSE) EXCEPT !.tracked = FALSE]

\* what _ping() met: an average, or one of the ways it returns None
PingOutcomes ==
    {[how |-> "rtt", ms |-> s] : s \in Samples}
        \cup {[how |-> h, ms |-> 0] : h \in {"nonzero", "timeout", "unparsable"}}

NoOutcome == [how |-> "none", ms |-> 0]

\* _ping(): Optional[float]
PingFailed(o) == o.how # "rtt"

(* LatencyProbe.history.  A stored ProbeResult is known by its number: the *)
(* n-th result appended to the list since the list was created.            *)

\* self.max_history = 100
max_history == 100

\* the ASN has no key in self.history
NoHistory == [has |-> FALSE, items |-> << >>, total |-> 0]

\* self.history[asn] = []
EmptyHistory == [has |-> TRUE, items |-> << >>, total |-> 0]

\* Mutation of Trim: the list is cut at its head, the oldest results stay.
TrimKeepsOldest(items) ==
    IF Len(items) > max_history THEN SubSeq(items, 1, max_history) ELSE items

\* _probe_peer, lines 210-211: history[asn] = history[asn][-max_history:]
Trim(items) ==
    IF Len(items) > max_history
    THEN SubSeq(items, Len(items) - max_history + 1, Len(items))
    ELSE items

\* _probe_peer, lines 207-211: a successful result is stored when the ASN
\* has a list
Record(h) ==
    IF h.has
    THEN [h EXCEPT !.items = Trim(Append(@, h.total + 1)), !.total = @ + 1]
    ELSE h

\* update_community(asn, tier, rtt_ms) of get_latency_probe(), for the
\* callbacks cb in order: the manager's settings of the ASN get the tier
RECURSIVE UpdateCommunity(_, _)
UpdateCommunity(m, cb) ==
    IF cb = << >> THEN m
    ELSE UpdateCommunity([m EXCEPT ![Head(cb).asn] = Head(cb).tier], Tail(cb))

ProberStart ==
    [running |-> FALSE, pc |-> "idle", tasks |-> {}, cycles |-> 0, nows |-> 0,
     peers |-> [a \in ProbeAsns |-> NoPeerInfo],
     last |-> "none", pre |-> [a \in ProbeAsns |-> NoPeerInfo],
     out |-> [a \in ProbeAsns |-> NoOutcome], cb |-> << >>]

\* an operation outside the probe cycle: the record of the last cycle is
\* dropped
Other(p) ==
    [p EXCEPT !.last = "other", !.pre = [a \in ProbeAsns |-> NoPeerInfo],
              !.out = [a \in ProbeAsns |-> NoOutcome], !.cb = << >>]

proberFrame == <<coreVars, ops, proc, web, portCalc, lateVars>>

\* add_peer(asn, endpoint) for an ASN that is not tracked
ProbeAddPeer(a) ==
    /\ ~prober.peers[a].tracked
    /\ prober' = [Other(prober) EXCEPT
                      !.peers[a] = NewPeer(prober.pc = "gather" /\ a \in prober.tasks)]
    /\ hist' = [hist EXCEPT ![a] = EmptyHistory]
    /\ UNCHANGED <<proberFrame, mgr>>

\* remove_peer(asn)
ProbeRemovePeer(a) ==
    /\ prober.peers[a].tracked
    /\ prober' = [Other(prober) EXCEPT !.peers[a] = NoPeerInfo]
    /\ hist' = [hist EXCEPT ![a] = NoHistory]
    /\ UNCHANGED <<proberFrame, mgr>>

\* start(): the probe loop task is created
ProbeStart ==
    /\ ~prober.running
    /\ prober.cycles < MaxCycles
    /\ prober' = [Other(prober) EXCEPT !.running = TRUE]
    /\ UNCHANGED <<proberFrame, hist, mgr>>

\* the pings of a cancelled gather that had already failed: their
\* fail_count was incremented by _probe_peer
Cancelled(peers, failed) ==
    [a \in ProbeAsns |->
        IF a \in failed /\ peers[a].tracked /\ ~peers[a].fresh
        THEN [peers[a] EXCEPT !.fail_count = @ + 1, !.fresh = FALSE]
        ELSE [peers[a] EXCEPT !.fresh = FALSE]]

\* stop(): _running = False and the loop task is cancelled, in its gather
\* or in its sleep
ProbeStop(failed) ==
    /\ prober.running
    /\ failed \subseteq prober.tasks
    /\ prober' = [Other(prober) EXCEPT !.running = FALSE, !.pc = "idle", !.tasks = {},
                                       !.peers = Cancelled(prober.peers, failed)]
    /\ UNCHANGED <<proberFrame, hist, mgr>>

\* _probe_all_peers(), lines 138-149: the tasks are made from the peers
\* tracked now and gathered; with no peer the call returns at once
CycleBegin ==
    /\ prober.running
    /\ prober.pc = "idle"
    /\ prober.cycles < MaxCycles
    /\ LET tasks == {a \in ProbeAsns : prober.peers[a].tracked}
       IN prober' = [Other(prober) EXCEPT !.cycles = @ + 1, !.tasks = tasks,
                                          !.pc = IF tasks = {} THEN "idle" ELSE "gather"]
    /\ UNCHANGED <<proberFrame, hist, mgr>>

\* if old_tier != peer.last_tier
TierChangedAlways(old_tier, new_tier) == old_tier = old_tier /\ new_tier = new_tier

TierChanged(old_tier, new_tier) == old_tier # new_tier

\* the smoothed RTT a successful result leaves in peer.last_rtt
Smoothed(p, o) == IF p.has_rtt THEN Ewma(o.ms, p.last_rtt) ELSE Rtt(o.ms, 0)

\* Mutation of Probed: the result loop files a successful result under its
\* ASN whether or not the ASN is still tracked.
ProbedRecreates(p, o) ==
    IF PingFailed(o)
    THEN [p EXCEPT !.fail_count = IF p.fresh \/ ~p.tracked THEN @ ELSE @ + 1, !.fresh = FALSE]
    ELSE [p EXCEPT !.tracked = TRUE, !.has_rtt = TRUE, !.last_rtt = Smoothed(p, o),
                   !.last_tier = LatencyToTier(Smoothed(p, o)),
                   !.probe_count = @ + 1, !.fresh = FALSE]

\* what _probe_peer and the result loop leave of one peer of the gather
Probed(p, o) ==
    IF ~p.tracked
    THEN p
    ELSE IF PingFailed(o)
    THEN [p EXCEPT !.fail_count = IF p.fresh THEN @ ELSE @ + 1, !.fresh = FALSE]
    ELSE [p EXCEPT !.has_rtt = TRUE, !.last_rtt = Smoothed(p, o),
                   !.last_tier = LatencyToTier(Smoothed(p, o)),
                   !.probe_count = @ + 1, !.fresh = FALSE]

\* self._update_callback(result.asn, peer.last_tier, peer.last_rtt), for the
\* results in order
RECURSIVE Callbacks(_, _, _)
Callbacks(order, peers, out) ==
    IF order = << >>
    THEN << >>
    ELSE LET a == Head(order)
             p == peers[a]
             q == Probed(p, out[a])
         IN (IF p.tracked /\ ~PingFailed(out[a]) /\ TierChanged(p.last_tier, q.last_tier)
             THEN <<[asn |-> a, tier |-> q.last_tier, rtt |-> q.last_rtt]>>
             ELSE << >>) \o Callbacks(Tail(order), peers, out)

\* _probe_all_peers(), lines 149-179: the gather is over, the results are
\* gone through.  Each successful _probe_peer stored its result in the list
\* of its ASN; for a peer that was removed and added again during the gather
\* that list is the new one when the ping ended after the add (late), and
\* the old one, gone by now, otherwise.
CycleFinish(out) ==
    /\ prober.pc = "gather"
    /\ \A a \in ProbeAsns : (a \in prober.tasks) <=> (out[a] # NoOutcome)
    /\ prober' = [prober EXCEPT
                      !.pc = "idle", !.tasks = {}, !.last = "cycle",
                      !.pre = prober.peers, !.out = out,
                      !.peers = [a \in ProbeAsns |->
                                    IF a \in prober.tasks
                                    THEN Probed(prober.peers[a], out[a])
                                    ELSE prober.peers[a]],
                      !.cb = Callbacks(SortedSeq(prober.tasks), prober.peers, out)]
    /\ \E late \in SUBSET {a \in prober.tasks : prober.peers[a].fresh} :
           hist' = [a \in ProbeAsns |->
                       IF /\ a \in prober.tasks
                          /\ ~PingFailed(out[a])
                          /\ prober.peers[a].fresh => a \in late
                       THEN Record(hist[a])
                       ELSE hist[a]]
    /\ mgr' = UpdateCommunity(mgr, prober'.cb)
    /\ UNCHANGED proberFrame

\* probe_now(asn): a successful ping overwrites last_rtt and last_tier, a
\* failed one changes nothing; neither the history nor the callback is
\* touched
ProbeNow(a, o) ==
    /\ prober.peers[a].tracked
    /\ prober.nows < MaxNow
    /\ prober' = [Other(prober) EXCEPT
                      !.nows = @ + 1, !.last = "now", !.pre = prober.peers,
                      !.peers[a] = IF PingFailed(o)
                                   THEN @
                                   ELSE [@ EXCEPT !.has_rtt = TRUE, !.last_rtt = Rtt(o.ms, 0),
                                                  !.last_tier = LatencyToTier(Rtt(o.ms, 0)),
                                                  !.probe_count = @ + 1]]
    /\ UNCHANGED <<proberFrame, hist, mgr>>

-----------------------------------------------------------------------------
(* One history list filled beyond max_history *)

\* results stored into one list
MaxRecords == 102

\* the peer whose list is filled
HistoryAsn == 64512

\* _probe_peer(peer), lines 181-214, for a ping that gave an average: the
\* result is stored and returned; PeerInfo is left to the result loop
StoreResult(a) ==
    /\ hist[a].total < MaxRecords
    /\ hist' = [hist EXCEPT ![a] = Record(@)]
    /\ UNCHANGED <<proberFrame, prober, mgr>>

-----------------------------------------------------------------------------
(* api/server.py: the auth middleware and the diagnostic handlers.  A      *)
(* string that is compared is a sequence of characters.                    *)

\* the longest API token
MaxTokenLen == 2

Chars == {"a", "b"}

Strs == UNION {[1..n -> Chars] : n \in 0..MaxTokenLen}

\* f"Bearer {config.api_token}"
BearerPrefix == <<"B", "e", "a", "r", "e", "r", " ">>

Bearer(token) == BearerPrefix \o token.text

\* config.api_token: None, or a string
NoToken == [set |-> FALSE, text |-> << >>]

Tokens == {NoToken} \cup {[set |-> TRUE, text |-> s] : s \in Strs}

\* if config.api_token:
TokenTruthy(token) == token.set /\ token.text # << >>

NoHeader == [present |-> FALSE, value |-> << >>]

\* Authorization headers a client may send: none, or a scheme followed by a
\* credential
Headers ==
    {NoHeader} \cup
    {[present |-> TRUE, value |-> p \o s] :
        p \in {BearerPrefix, <<"b", "e", "a", "r", "e", "r", " ">>, << >>}, s \in Strs}

\* request.headers.get("Authorization", "")
HeadersGet(h) == IF h.present THEN h.value ELSE << >>

\* auth_middleware: the handler is called
AuthorizedByPrefix(token, header) ==
    \/ ~TokenTruthy(token)
    \/ /\ Len(HeadersGet(header)) >= Len(Bearer(token))
       /\ SubSeq(HeadersGet(header), 1, Len(Bearer(token))) = Bearer(token)

Authorized(token, header) ==
    \/ ~TokenTruthy(token)
    \/ ~(HeadersGet(header) # Bearer(token))

DiagRoutes == {"ping", "tcping", "trace", "route", "path"}

Routes == DiagRoutes \cup {"index"}

\* a value of the JSON body: absent, an integer or a string
Json(kind, v) == [kind |-> kind, v |-> v]

Absent == Json("missing", 0)

\* the JSON objects sent: "target" absent, "" or a host; "count" absent, a
\* number or a string
DiagBodies ==
    [target : {Absent, Json("text", ""), Json("text", "host")},
     count : {Absent, Json("int", 4), Json("int", 99), Json("text", "4")}]

NoBody == [target |-> Absent, count |-> Absent]

\* data.get(key, default)
DataGet(v, default) == IF v.kind = "missing" THEN default ELSE v

\* not target
JsonFalsy(v) == (v.kind = "text" /\ v.v = "") \/ (v.kind = "int" /\ v.v = 0)

\* how subprocess.run() ends
Outcome(kind, stdout, stderr) == [kind |-> kind, stdout |-> stdout, stderr |-> stderr]

Outcomes2 ==
    {Outcome("exit0", s, "") : s \in {"", "text", "BGP.as_path: 64512"}}
        \cup {Outcome("exit1", "text", ""), Outcome("exit1", "", "error text"),
              Outcome("timeout", "", ""), Outcome("oserror", "", "")}

NoOutcome2 == Outcome("none", "", "")

\* Optional[str]
Ret(none, text) == [none |-> none, text |-> text]

\* simple_run(cmd, timeout)
SimpleRun(o) ==
    IF o.kind = "exit0" THEN Ret(FALSE, o.stdout)
    ELSE IF o.kind = "exit1" THEN Ret(FALSE, o.stderr)
    ELSE Ret(TRUE, "")

\* result or default
OrElse(r, default) == IF r.none \/ r.text = "" THEN default ELSE r.text

Response(status, key, text) == [status |-> status, key |-> key, text |-> text]

NoResponse == Response(0, "", "")

\* what a handler did: its answer and the commands it ran
Handled(resp, cmds) == [resp |-> resp, cmds |-> cmds]

Ran(prog, o) == [prog |-> prog, outcome |-> o]

MissingTarget == Handled(Response(400, "error", "Missing target"), << >>)

\* an exception that leaves the handler: aiohttp answers 500
Raised == Handled(Response(500, "text", "500 Internal Server Error"), << >>)

\* cmd_ping
CmdPing(body, o) ==
    IF DataGet(body.count, Json("int", 4)).kind # "int"
    THEN Raised
    ELSE IF JsonFalsy(DataGet(body.target, Json("text", "")))
    THEN MissingTarget
    ELSE Handled(Response(200, "result", OrElse(SimpleRun(o), "Timeout")),
                 <<Ran("ping", o)>>)

\* cmd_tcping
CmdTcping(body, o, o2) ==
    IF JsonFalsy(DataGet(body.target, Json("text", "")))
    THEN MissingTarget
    ELSE IF SimpleRun(o).none
    THEN Handled(Response(200, "result", OrElse(SimpleRun(o2), "Timeout")),
                 <<Ran("tcping", o), Ran("nc", o2)>>)
    ELSE Handled(Response(200, "result", OrElse(SimpleRun(o), "Timeout")),
                 <<Ran("tcping", o)>>)

\* cmd_traceroute
CmdTraceroute(body, o) ==
    IF JsonFalsy(DataGet(body.target, Json("text", "")))
    THEN MissingTarget
    ELSE Handled(Response(200, "result", OrElse(SimpleRun(o), "Timeout")),
                 <<Ran("traceroute", o)>>)

\* cmd_route
CmdRoute(body, o) ==
    IF JsonFalsy(DataGet(body.target, Json("text", "")))
    THEN MissingTarget
    ELSE Handled(Response(200, "result", OrElse(SimpleRun(o), "Not found")),
                 <<Ran("birdc", o)>>)

\* cmd_path
CmdPath(body, o) ==
    IF JsonFalsy(DataGet(body.target, Json("text", "")))
    THEN MissingTarget
    ELSE IF ~SimpleRun(o).none /\ SimpleRun(o).text = "BGP.as_path: 64512"
    THEN Handled(Response(200, "result", SimpleRun(o).text), <<Ran("birdc", o)>>)
    ELSE Handled(Response(404, "result", "Not found"), <<Ran("birdc", o)>>)

\* index
Index == Handled(Response(200, "status", "ok"), << >>)

NoRequest2 == [route |-> "", header |-> NoHeader, body |-> NoBody]

WebStart(token) ==
    [token |-> token, pc |-> "idle", req |-> NoRequest2, ran |-> FALSE,
     resp |-> NoResponse, cmds |-> << >>]

\* before api/server.py is imported
WebUnloaded == [WebStart(NoToken) EXCEPT !.pc = "import"]

webFrame == <<coreVars, ops, proc, prober, portCalc, lateVars, hist, mgr>>

\* config = load_config(), line 18
ApiLoadConfig(token) ==
    /\ web.pc = "import"
    /\ web' = WebStart(token)
    /\ UNCHANGED webFrame

\* a request arrives
ApiReceive(route, header, body) ==
    /\ web.pc = "idle"
    /\ route \in DiagRoutes \/ body = NoBody
    /\ route = "ping" \/ body.count = Absent
    /\ web' = [web EXCEPT !.pc = "auth",
                          !.req = [route |-> route, header |-> header, body |-> body]]
    /\ UNCHANGED webFrame

\* auth_middleware, lines 47-50
AuthMiddleware ==
    /\ web.pc = "auth"
    /\ web' = IF Authorized(web.token, web.req.header)
              THEN [web EXCEPT !.pc = "handler"]
              ELSE [web EXCEPT !.pc = "done", !.resp = Response(401, "error", "Unauthorized")]
    /\ UNCHANGED webFrame

\* return await handler(request): the handler of the route, with the way
\* its commands end
Handler(o, o2) ==
    /\ web.pc = "handler"
    /\ LET body == web.req.body
           h == CASE web.req.route = "ping" -> CmdPing(body, o)
                  [] web.req.route = "tcping" -> CmdTcping(body, o, o2)
                  [] web.req.route = "trace" -> CmdTraceroute(body, o)
                  [] web.req.route = "route" -> CmdRoute(body, o)
                  [] web.req.route = "path" -> CmdPath(body, o)
                  [] OTHER -> Index
       IN /\ \A i \in 1..2 : (i > Len(h.cmds)) => (<<o, o2>>[i] = NoOutcome2)
          /\ \A i \in 1..Len(h.cmds) : <<o, o2>>[i] # NoOutcome2
          /\ web' = [web EXCEPT !.pc = "done", !.ran = TRUE, !.resp = h.resp,
                                !.cmds = h.cmds]
    /\ UNCHANGED webFrame

\* the answer is sent; the server waits for the next request
ApiIdle ==
    /\ web.pc = "done"
    /\ web' = WebStart(web.token)
    /\ UNCHANGED webFrame

-----------------------------------------------------------------------------
(* _calculate_listen_port over the 32-bit ASNs *)

\* asn \div 10000 of the ASNs given: both ranges, their neighbours, small
\* ASNs and the largest 32-bit ones
HiInputs == {0, 6, RangeB - 1, RangeB, RangeB + 1, RangeA - 1, RangeA, RangeA + 1, 429496}

\* asn % 10000 of the ASNs given
LoInputs == {0, 1, 337, 1337, 7295, 9999}

\* the ASNs given: 0 .. 4294967295
AsnInputs2 == {a \in HiInputs \X LoInputs : a[1] = 429496 => a[2] <= 7295}

NoPorts == [n |-> 0, a |-> <<0, 0>>, b |-> <<0, 0>>, pa |-> 0, pb |-> 0]

\* the port is computed for two peers
CalculatePorts(a, b) ==
    /\ portCalc = NoPorts
    /\ portCalc' = [n |-> 1, a |-> a, b |-> b, pa |-> CalculateListenPort(a),
                    pb |-> CalculateListenPort(b)]
    /\ UNCHANGED <<coreVars, ops, proc, prober, web, lateVars, hist, mgr>>

\* the two interfaces are written with their ports; the next pair follows
PortsUsed ==
    /\ portCalc # NoPorts
    /\ portCalc' = NoPorts
    /\ UNCHANGED <<coreVars, ops, proc, prober, web, lateVars, hist, mgr>>

-----------------------------------------------------------------------------
(* executor/wireguard.py: up(I) of one interface I, command by command.    *)
(* The config file is what the regular expressions of up() find in it.     *)

\* up() calls made
MaxUps == 3

\* the commands up() runs with check=True
Commands == {"link_add", "setconf", "private_key", "listen_port", "link_up"}

\* <config_dir>/<iface>.conf: absent, or a text with or without a
\* PrivateKey line, a ListenPort line and a [Peer] section
NoTunFile == [exists |-> FALSE, key |-> FALSE, port |-> FALSE, peer |-> FALSE]

TunFiles == [exists : {TRUE}, key : BOOLEAN, port : BOOLEAN, peer : BOOLEAN]

Only(cond, cmd) == IF cond THEN <<cmd>> ELSE << >>

\* up(), lines 131-168: the commands of a run in which none fails.  The link
\* is set up only in the branch `if not interface_exists`.
Plan(link, file) ==
    Only(link = "absent", "link_add")
        \o Only(file.peer, "setconf")
        \o Only(file.key, "private_key")
        \o Only(file.port, "listen_port")
        \o Only(link = "absent", "link_up")

\* the commands run when failAt exits non-zero: check=True raises
\* CalledProcessError there and the rest is skipped
RECURSIVE RunUntil(_, _)
RunUntil(plan, failAt) ==
    IF plan = << >> THEN << >>
    ELSE IF Head(plan) = failAt THEN <<failAt>>
    ELSE <<Head(plan)>> \o RunUntil(Tail(plan), failAt)

InSeq(x, seq) == \E i \in DOMAIN seq : seq[i] = x

\* the kernel link after the commands cmds, of which failAt failed
LinkAfter(link, cmds, failAt) ==
    IF InSeq("link_up", cmds) /\ failAt # "link_up" THEN "up"
    ELSE IF InSeq("link_add", cmds) /\ failAt # "link_add" THEN "down"
    ELSE link

NoUp == [called |-> FALSE, pre |-> "absent", cmds |-> << >>, ret |-> FALSE, failAt |-> "none"]

TunStart == [link |-> "absent", file |-> NoTunFile, ups |-> 0, last |-> NoUp]

tunFrame == <<coreVars, ops, proc, prober, web, portCalc, mesh, hist, mgr>>

\* write_interface(I, config)
TunWrite(file) ==
    /\ tun' = [tun EXCEPT !.file = file, !.last = NoUp]
    /\ UNCHANGED tunFrame

\* remove_interface(I)
TunRemove ==
    /\ tun.file.exists
    /\ tun' = [tun EXCEPT !.file = NoTunFile, !.last = NoUp]
    /\ UNCHANGED tunFrame

\* up(I); failAt is the command that fails in this run, if it is reached
TunUp(failAt) ==
    /\ tun.ups < MaxUps
    /\ IF ~tun.file.exists
       THEN tun' = [tun EXCEPT !.ups = @ + 1,
                               !.last = [called |-> TRUE, pre |-> tun.link, cmds |-> << >>,
                                         ret |-> FALSE, failAt |-> failAt]]
       ELSE LET cmds == RunUntil(Plan(tun.link, tun.file), failAt)
            IN tun' = [tun EXCEPT !.ups = @ + 1,
                                  !.link = LinkAfter(tun.link, cmds, failAt),
                                  !.last = [called |-> TRUE, pre |-> tun.link, cmds |-> cmds,
                                            ret |-> ~InSeq(failAt, cmds), failAt |-> failAt]]
    /\ UNCHANGED tunFrame

\* down(I): `ip link del` when the link exists
TunDown ==
    /\ tun.link # "absent"
    /\ tun' = [tun EXCEPT !.link = "absent", !.last = NoUp]
    /\ UNCHANGED tunFrame

\* an administrator runs `ip link set I down` or `ip link set I up`
TunLinkSet(st) ==
    /\ tun.link \notin {"absent", st}
    /\ tun' = [tun EXCEPT !.link = st, !.last = NoUp]
    /\ UNCHANGED tunFrame

-----------------------------------------------------------------------------
(* daemon/mesh_sync.py.  An interface name is the sequence of its parts    *)
(* between the "-" signs, so that startswith() and split("-") are what     *)
(* they are on the string.                                                 *)

\* node ids of the mesh peers
MeshIds == {1, 2}

\* str(node_id)
Digits == [k \in MeshIds |-> IF k = 1 THEN "1" ELSE "2"]

\* get_mesh_interface_name(peer_node_id): "dn42-wg-igp-<k>"
MeshName(k) == <<"dn42", "wg", "igp", Digits[k]>>

\* the tunnel of an eBGP peer, "dn42-4242420337"
EbgpName == <<"dn42", "4242420337">>

IfNames == {MeshName(k) : k \in MeshIds} \cup {EbgpName}

\* name.startswith("dn42-wg-igp-")
HasMeshPrefix(name) == Len(name) >= 4 /\ SubSeq(name, 1, 3) = <<"dn42", "wg", "igp">>

\* int(name.split("-")[-1]); -1 stands for ValueError
IntOf(name) ==
    IF \E k \in MeshIds : Digits[k] = name[Len(name)]
    THEN CHOOSE k \in MeshIds : Digits[k] = name[Len(name)]
    ELSE -1

\* WireGuardExecutor.get_status()["names"]: the WireGuard links whose name
\* starts with "dn42-" or "wg-"
CurrentNames(ifc) == {n \in IfNames : ifc[n] # "absent" /\ n[1] \in {"dn42", "wg"}}

\* _cleanup_stale_interfaces, lines 198-205: the names it takes down and
\* removes
StaleNames(ifc, active_peer_ids) ==
    {n \in CurrentNames(ifc) :
        HasMeshPrefix(n) /\ IntOf(n) # -1 /\ IntOf(n) \notin active_peer_ids}

\* the mesh document of the control plane; bad: a peer entry without its
\* "public_key" or "loopback" (sync_mesh raises KeyError at it)
MeshConfigs == [ok : {TRUE}, peers : SUBSET MeshIds, bad : BOOLEAN]

\* get_mesh_config() returned None
NoMeshConfig == [ok |-> FALSE, peers |-> {}, bad |-> FALSE]

\* what fails in the executor during a sync_mesh()
MeshFails == {"none", "write", "setconf"}

\* a rendered mesh config holds all three parts
MeshFile == [exists |-> TRUE, key |-> TRUE, port |-> TRUE, peer |-> TRUE]

\* self.wg.up(interface_name)
MeshUp(link, has_file, fail) ==
    IF has_file THEN LinkAfter(link, RunUntil(Plan(link, MeshFile), fail), fail) ELSE link

\* sync_mesh(), lines 209-308: what it leaves and returns
SyncMesh(m, cfg, fail) ==
    IF ~cfg.ok
    THEN [ifc |-> m.ifc, conf |-> m.conf, babel |-> m.babel, changed |-> FALSE, ret |-> "false"]
    ELSE IF cfg.peers = {}
    THEN [ifc |-> m.ifc, conf |-> m.conf, babel |-> m.babel, changed |-> FALSE, ret |-> "true"]
    ELSE IF cfg.bad
    THEN [ifc |-> m.ifc, conf |-> m.conf, babel |-> m.babel, changed |-> FALSE, ret |-> "raised"]
    ELSE LET named == {MeshName(k) : k \in cfg.peers}
             conf1 == IF fail = "write" THEN m.conf ELSE m.conf \cup named
             ifc1 == [n \in IfNames |->
                         IF n \in named THEN MeshUp(m.ifc[n], n \in conf1, fail) ELSE m.ifc[n]]
             stale == StaleNames(ifc1, cfg.peers)
         IN [ifc |-> [n \in IfNames |-> IF n \in stale THEN "absent" ELSE ifc1[n]],
             conf |-> conf1 \ stale,
             babel |-> "written",
             changed |-> m.babel # "written",
             ret |-> "true"]

NoSync == [called |-> FALSE, at |-> 0, cfg |-> NoMeshConfig, ret |-> "none",
           pre |-> [n \in IfNames |-> "absent"], preConf |-> {}]

MeshStart == [ifc |-> [n \in IfNames |-> "absent"], conf |-> {}, babel |-> "absent",
              last |-> NoSync]

\* await self.mesh_sync.sync_mesh(), with the reload of line 304; at is the
\* number of sync_config() calls run() had made by then
MeshSyncCall(cfg, fail) ==
    LET r == SyncMesh(mesh, cfg, fail)
    IN /\ mesh' = [ifc |-> r.ifc, conf |-> r.conf, babel |-> r.babel,
                   last |-> [called |-> TRUE, at |-> syncs, cfg |-> cfg, ret |-> r.ret,
                             pre |-> mesh.ifc, preConf |-> mesh.conf]]
       /\ IF r.changed
          THEN BirdReload
          ELSE UNCHANGED <<reload_timer, reload_pending, timers, sinceReload, afterNow,
                           configures, lastConfigure, owed>>

meshFrame == <<variant, sinceCall, calls, burstOK, threadVars, agentVars, bootVars,
               storeVars, apiVars, ops, proc, prober, web, portCalc, tun, hist, mgr>>

\* main.py line 160 and the operator's view of it: one sync_mesh() call
MeshSync(cfg, fail) ==
    /\ MeshSyncCall(cfg, fail)
    /\ UNCHANGED meshFrame

\* the eBGP reconciler or an administrator creates, sets or deletes a link
MeshEnvLink(n, st) ==
    /\ mesh.ifc[n] # st
    /\ mesh' = [mesh EXCEPT !.ifc[n] = st, !.last = NoSync]
    /\ UNCHANGED <<meshFrame, reloaderVars>>

\* the eBGP reconciler writes the config of its tunnel
MeshEnvConf ==
    /\ EbgpName \notin mesh.conf
    /\ mesh' = [mesh EXCEPT !.conf = @ \cup {EbgpName}, !.last = NoSync]
    /\ UNCHANGED <<meshFrame, reloaderVars>>

-----------------------------------------------------------------------------
(* SyncDaemon.run() with the MeshSync that main.py line 166 hands to it:   *)
(* the periodic branch awaits sync_config() and then sync_mesh().          *)

\* run(), line 149: await self.sync_config(), in the branch of line 148
RunTickConfig ==
    /\ pc = "tick_sync"
    /\ syncs < MaxSyncs
    /\ SyncConfig("tick")
    /\ lastFail' = cycle'.fail
    /\ syncs' = syncs + 1
    /\ pc' = IF cycle'.result = "raised" THEN "crashed" ELSE "tick_mesh"
    /\ UNCHANGED <<frozen, running, lastHeartbeat, counter>>

\* run(), lines 151-156: try: await self.mesh_sync.sync_mesh() except
\* Exception: log; counter = 0
RunTickMesh ==
    /\ pc = "tick_mesh"
    /\ \E cfg \in MeshConfigs \cup {NoMeshConfig} : MeshSyncCall(cfg, "none")
    /\ counter' = 0
    /\ pc' = "loop"
    /\ UNCHANGED <<variant, sinceCall, calls, burstOK, threadVars, state, wgFiles, birdFiles,
                   ifaces, fw4, fw6, plainRules, running, lastHeartbeat, syncs, applyOK,
                   lastFail, cycle, bootVars, storeVars, apiVars, ops, proc, prober, web,
                   portCalc, tun, hist, mgr>>

ExtInit ==
    /\ ops = OpsStart
    /\ proc = ProcStart
    /\ prober = ProberStart
    /\ web = WebUnloaded
    /\ portCalc = NoPorts
    /\ tun = TunStart
    /\ mesh = MeshStart
    /\ hist = [a \in ProbeAsns |-> NoHistory]
    /\ mgr = [a \in ProbeAsns |-> NoneTier]

HostInit ==
    /\ boot = BootStart(0, 1, {}, 0)
    /\ dummy0 = {}
    /\ lo = NoCall
    /\ store = StoreStart
    /\ ApiInit
    /\ ExtInit

AgentInit ==
    /\ state = EmptyState
    /\ wgFiles = [a \in ASNs |-> NoFile]
    /\ birdFiles = [a \in ASNs |-> NoFile]
    /\ ifaces = [a \in ASNs |-> "absent"]
    /\ fw4 = [p \in Ports |-> 0]
    /\ fw6 = [p \in Ports |-> 0]
    /\ plainRules = {}
    /\ pc = "start"
    /\ running = FALSE
    /\ counter = 0
    /\ lastHeartbeat = [sent |-> FALSE, hash |-> NoneHash]
    /\ syncs = 0
    /\ applyOK = [a \in ASNs |-> NoPeer]
    /\ lastFail = NoFail
    /\ cycle = NoCycle

SyncInit == AgentInit /\ HostInit

-----------------------------------------------------------------------------
(* The reloader driven by arbitrary threads *)

ReloaderInit ==
    /\ reload_timer = 0
    /\ reload_pending = FALSE
    /\ timers = [t \in TimerIds |-> FreeTimer]
    /\ sinceCall = coalesce_delay
    /\ sinceReload = coalesce_delay
    /\ calls = 0
    /\ burstOK = TRUE
    /\ afterNow = FALSE
    /\ configures = 0
    /\ lastConfigure = [by |-> "none", age |-> 0, afterNow |-> FALSE]
    /\ owed = FALSE

InitReload ==
    /\ variant \in Variants
    /\ ReloaderInit
    /\ callers = [c \in Threads |-> "idle"]
    /\ nowCalls = 0
    /\ SyncInit

NextReload ==
    \/ \E c \in Threads : CallReload(c)
    \/ \E c \in Threads : ReloadBody(c)
    \/ \E c \in Threads : CallReloadNow(c)
    \/ \E c \in Threads : ReloadNowRun(c)
    \/ \E t \in TimerIds : TimerWake(t)
    \/ \E t \in TimerIds : ExecuteReloadLocked(t)
    \/ \E t \in TimerIds : ExecuteReloadRun(t)
    \/ Tick

SpecReload == InitReload /\ [][NextReload]_vars

-----------------------------------------------------------------------------
(* The reloader with threads that are scheduled fairly and callers that    *)
(* need never stop calling                                                 *)

\* A thread invokes reload() after MaxCalls invocations were counted: the
\* count stays at its cap, the call is made as before.
CallReloadMore(c) ==
    /\ callers[c] = "idle"
    /\ calls + nowCalls >= MaxCalls
    /\ callers' = [callers EXCEPT ![c] = "reload"]
    /\ burstOK' = (burstOK /\ sinceCall < coalesce_delay)
    /\ sinceCall' = 0
    /\ UNCHANGED <<variant, reload_timer, reload_pending, timers, sinceReload,
                   afterNow, configures, lastConfigure, owed, calls, nowCalls>>
    /\ UNCHANGED syncVars

NextReloadLive ==
    \/ NextReload
    \/ \E c \in Threads : CallReloadMore(c)

\* Every timer thread that can take its next step takes it, a thread inside
\* reload() or reload_now() goes on to the end of the call, and time passes.
\* Nothing obliges a thread to call reload() or reload_now().
FairThreads ==
    /\ \A t \in TimerIds : /\ WF_vars(TimerWake(t))
                           /\ WF_vars(ExecuteReloadLocked(t))
                           /\ WF_vars(ExecuteReloadRun(t))
    /\ \A c \in Threads : WF_vars(ReloadBody(c)) /\ WF_vars(ReloadNowRun(c))
    /\ WF_vars(Tick)

SpecReloadLive == InitReload /\ [][NextReloadLive]_vars /\ FairThreads

-----------------------------------------------------------------------------
(* The agent: run() and the environment.  A reload that sync_config()      *)
(* requests leaves the reloader as reload() leaves it; the timer threads   *)
(* and their races with further calls are the subject of SpecReload.       *)

Init ==
    /\ variant \in Variants
    /\ ReloaderInit
    /\ callers = [c \in Threads |-> "idle"]
    /\ nowCalls = 0
    /\ state = EmptyState
    /\ wgFiles = [a \in ASNs |-> NoFile]
    /\ birdFiles = [a \in ASNs |-> NoFile]
    /\ ifaces = [a \in ASNs |-> "absent"]
    /\ fw4 = [p \in Ports |-> 0]
    /\ fw6 = [p \in Ports |-> 0]
    /\ plainRules = {}
    /\ pc = "start"
    /\ running = FALSE
    /\ counter = 0
    /\ lastHeartbeat = [sent |-> FALSE, hash |-> NoneHash]
    /\ syncs = 0
    /\ applyOK = [a \in ASNs |-> NoPeer]
    /\ lastFail = NoFail
    /\ cycle = NoCycle
    /\ HostInit

Next ==
    \/ RunInitialSync
    \/ RunLoop
    \/ RunHeartbeat
    \/ RunTickSync
    \/ Stop
    \/ \E a \in ASNs, k \in {"wg", "bird"} : EnvDeleteFile(a, k)

Spec == Init /\ [][Next]_vars

-----------------------------------------------------------------------------
(* _add_peer() and _remove_peer() called in any order, on any peer spec *)

PeerSpecs == {P1, P1r, P2}

InitApply ==
    /\ variant \in Variants
    /\ ReloaderInit
    /\ callers = [c \in Threads |-> "idle"]
    /\ nowCalls = 0
    /\ state = EmptyState
    /\ wgFiles = [a \in ASNs |-> NoFile]
    /\ birdFiles = [a \in ASNs |-> NoFile]
    /\ ifaces = [a \in ASNs |-> "absent"]
    /\ fw4 = [p \in Ports |-> 0]
    /\ fw6 = [p \in Ports |-> 0]
    /\ plainRules \in {{}, {CalculateListenPort(A1)}}
    /\ pc = "start"
    /\ running = FALSE
    /\ counter = 0
    /\ lastHeartbeat = [sent |-> FALSE, hash |-> NoneHash]
    /\ syncs = 0
    /\ applyOK = [a \in ASNs |-> NoPeer]
    /\ lastFail = NoFail
    /\ cycle = NoCycle
    /\ HostInit

NextApply ==
    \/ \E peer \in PeerSpecs, fail \in Fails : ApplyPeer(peer, fail)
    \/ \E asn \in ASNs : RetractPeer(asn)

SpecApply == InitApply /\ [][NextApply]_vars

-----------------------------------------------------------------------------
(* Startup on a device that carries any set of addresses *)

InitBoot ==
    /\ variant \in Variants
    /\ ReloaderInit
    /\ callers = [c \in Threads |-> "idle"]
    /\ nowCalls = 0
    /\ AgentInit
    /\ dummy0 \in SUBSET AddrUniverse
    /\ boot \in {BootStart(c, 1, dummy0, 0) : c \in ConfigIds}
    /\ lo = NoCall
    /\ store = StoreStart
    /\ ApiInit
    /\ ExtInit

NextBoot ==
    \/ \E reply \in Replies, persisted \in BOOLEAN : MainStartup(reply, persisted)
    \/ Restart

SpecBoot == InitBoot /\ [][NextBoot]_vars

-----------------------------------------------------------------------------
(* The state store: updates, the steps of save(), crashes and restarts *)

InitStore ==
    /\ variant = "daemon"
    /\ ReloaderInit
    /\ callers = [c \in Threads |-> "idle"]
    /\ nowCalls = 0
    /\ AgentInit
    /\ HostInit

NextStore ==
    \/ \E doc \in Docs : UpdateAppliedConfigCall(doc)
    \/ SaveOpenTemp
    \/ SaveDump
    \/ SaveReplace
    \/ SaveError
    \/ Crash
    \/ Load

SpecStore == InitStore /\ [][NextStore]_vars

-----------------------------------------------------------------------------
(* Operator restarts and reconciler passes over the same peer *)

InitRestart ==
    /\ variant \in Variants
    /\ ReloaderInit
    /\ callers = [c \in Threads |-> "idle"]
    /\ nowCalls = 0
    /\ AgentInit
    /\ HostInit

NextRestart ==
    \/ RestartRequest
    \/ \E named \in BOOLEAN : RestartResume(named)
    \/ \E out \in Outcomes : RestartBgpDisable(out)
    \/ \E out \in Outcomes : RestartWgDown(out)
    \/ \E out \in Outcomes : RestartWgUp(out)
    \/ \E out \in Outcomes : RestartBgpEnable(out)
    \/ RestartRespond
    \/ PassFetch
    \/ \E op \in {"apply", "retract"} : PassResume(op)
    \/ PassStep
    \/ PassEnd

SpecRestart == InitRestart /\ [][NextRestart]_vars

-----------------------------------------------------------------------------
(* Operator requests in any order, with time passing between them *)

InitOperator ==
    /\ variant \in Variants
    /\ ReloaderInit
    /\ callers = [c \in Threads |-> "idle"]
    /\ nowCalls = 0
    /\ AgentInit
    /\ HostInit

NextOperator ==
    \/ \E body \in Bodies, ok \in BOOLEAN : AddToBlacklist(body, ok)
    \/ \E body \in Bodies, ok \in BOOLEAN : RemoveFromBlacklist(body, ok)
    \/ \E ok \in BOOLEAN : StartMaintenance(ok)
    \/ \E ok \in BOOLEAN : StopMaintenance(ok)
    \/ OperatorTick

SpecOperator == InitOperator /\ [][NextOperator]_vars

-----------------------------------------------------------------------------
(* The agent from its first sync to the end of the process, with the       *)
(* reloader's timer threads running beside it                              *)

NextShutdown ==
    \/ RunInitialSync
    \/ RunLoop
    \/ RunHeartbeat
    \/ ShutdownTickSync
    \/ Stop
    \/ MainFinally
    \/ ProcessExit
    \/ \E t \in TimerIds : TimerThread(t)
    \/ Elapse

SpecShutdown == Init /\ [][NextShutdown]_vars

-----------------------------------------------------------------------------
(* The prober driven by the operator API and by its own loop *)

NextProbe ==
    \/ \E a \in ProbeAsns : ProbeAddPeer(a)
    \/ \E a \in ProbeAsns : ProbeRemovePeer(a)
    \/ ProbeStart
    \/ \E failed \in SUBSET ProbeAsns : ProbeStop(failed)
    \/ CycleBegin
    \/ \E out \in [ProbeAsns -> PingOutcomes \cup {NoOutcome}] : CycleFinish(out)
    \/ \E a \in ProbeAsns, o \in PingOutcomes : ProbeNow(a, o)

SpecProbe == InitOperator /\ [][NextProbe]_vars

-----------------------------------------------------------------------------
(* Requests to the HTTP API, one after another *)

NextApi ==
    \/ \E token \in Tokens : ApiLoadConfig(token)
    \/ \E route \in Routes, header \in Headers, body \in DiagBodies \cup {NoBody} :
           ApiReceive(route, header, body)
    \/ AuthMiddleware
    \/ \E o \in Outcomes2 \cup {NoOutcome2}, o2 \in Outcomes2 \cup {NoOutcome2} :
           Handler(o, o2)
    \/ ApiIdle

SpecApi == InitOperator /\ [][NextApi]_vars

-----------------------------------------------------------------------------
(* The listen port of any two ASNs *)

NextPorts ==
    \/ \E a \in AsnInputs2, b \in AsnInputs2 : CalculatePorts(a, b)
    \/ PortsUsed

SpecPorts == InitOperator /\ [][NextPorts]_vars

-----------------------------------------------------------------------------
(* The tunnel executor on one interface *)

NextTunnel ==
    \/ \E file \in TunFiles : TunWrite(file)
    \/ TunRemove
    \/ \E failAt \in Commands \cup {"none"} : TunUp(failAt)
    \/ TunDown
    \/ \E st \in {"down", "up"} : TunLinkSet(st)

SpecTunnel == InitOperator /\ [][NextTunnel]_vars

-----------------------------------------------------------------------------
(* sync_mesh() called again and again, between changes made by others *)

NextMesh ==
    \/ \E cfg \in MeshConfigs \cup {NoMeshConfig}, fail \in MeshFails : MeshSync(cfg, fail)
    \/ \E n \in IfNames, st \in {"absent", "down", "up"} : MeshEnvLink(n, st)
    \/ MeshEnvConf

SpecMesh == InitOperator /\ [][NextMesh]_vars

-----------------------------------------------------------------------------
(* run() as main.py starts it, with the mesh resync in the periodic branch *)

NextRun ==
    \/ RunInitialSync
    \/ RunLoop
    \/ RunHeartbeat
    \/ RunTickConfig
    \/ RunTickMesh
    \/ Stop

SpecRun == Init /\ [][NextRun]_vars

-----------------------------------------------------------------------------
(* add_peer, remove_peer and stored probe results of one peer, in any order *)

NextHistory ==
    \/ ProbeAddPeer(HistoryAsn)
    \/ ProbeRemovePeer(HistoryAsn)
    \/ StoreResult(HistoryAsn)

SpecHistory == InitOperator /\ [][NextHistory]_vars

-----------------------------------------------------------------------------
(* Operator requests, with restarts of the agent between them *)

NextMaintenance ==
    \/ NextOperator
    \/ AgentRestart

SpecMaintenance == InitOperator /\ [][NextMaintenance]_vars

\* No reload() or reload_now() call is in progress and no timer is alive.
Quiescent ==
    /\ \A c \in Threads : callers[c] = "idle"
    /\ \A t \in TimerIds : timers[t].st = "free"

\* C1: N >= 1 reload() calls, each invoked within coalesce_delay of the
\* previous one, from any executor instances, result in exactly one
\* `configure` in total once all of them have been served.
C1_ExactlyOneConfigure ==
    (Quiescent /\ calls >= 1 /\ nowCalls = 0 /\ burstOK) => configures = 1

\* C2: a configure fired by the debounce timer is never invoked earlier
\* than coalesce_delay after the most recent reload() call returned.
C2_ConfigureAfterFullDelay ==
    lastConfigure.by = "timer" => lastConfigure.age >= coalesce_delay

\* C3: a reload that was pending when reload_now() was called never fires
\* afterwards: no timer runs configure after a reload_now() unless a later
\* reload() armed it (reload_now() itself runs exactly one configure, in
\* ReloadNowRun, before it returns).
C3_NoFireAfterReloadNow ==
    lastConfigure.by = "timer" => ~lastConfigure.afterNow

-----------------------------------------------------------------------------
(* Properties of sync_config() cycles.  They read cycle, the record of the
   last call, in the state that call left: nothing but RunLoop, which clears
   the record, follows a call of sync_config(). *)

\* the last step was a call of sync_config()
SyncCycle == cycle.kind \in {"initial", "tick"}

HasEntry(log, op, asn) == \E i \in DOMAIN log : log[i].op = op /\ log[i].asn = asn

HasOkEntry(log, op, asn) ==
    \E i \in DOMAIN log : log[i].op = op /\ log[i].asn = asn /\ log[i].ok

\* the calls of the log that write a peer config file
FileWrites(log) == {i \in DOMAIN log : log[i].op \in {"write_interface", "write_peer"}}

\* the calls of the log that added firewall rules
RuleAdds(log) == {i \in DOMAIN log : log[i].op = "allow_port"}

\* ASNs of the applied snapshot the call found that its document lacks
Removed(c) == AsnSet(c.preState.applied_config.peers) \ AsnSet(c.doc.peers)

\* the reloader is as a reload() request leaves it
ReloadRequested ==
    IF variant = "workers"
    THEN /\ reload_pending
         /\ reload_timer # 0
         /\ timers[reload_timer] = [st |-> "waiting", rem |-> coalesce_delay]
    ELSE lastConfigure.by = "reload" /\ configures >= 1

BothFiles(asn) == wgFiles[asn].exists /\ birdFiles[asn].exists

\* C4: when sync_config() detects a change and returns true, apply was
\* invoked for every desired peer, retract for exactly the ASNs of the
\* applied snapshot that the desired config lacks, a reload was requested,
\* and the state store holds the remote hash and the desired peer list.
C4_ChangeApplied ==
    (SyncCycle /\ cycle.detected /\ cycle.result = "true") =>
        /\ \A i \in 1..Len(cycle.doc.peers) :
               HasEntry(cycle.log, "add_peer", cycle.doc.peers[i].asn)
        /\ \A a \in ASNs :
               HasEntry(cycle.log, "remove_peer_begin", a) <=> a \in Removed(cycle)
        /\ cycle.reloads = 1
        /\ ReloadRequested
        /\ state.config_version_hash = RemoteHash(cycle.doc)
        /\ state.applied_config.peers = cycle.doc.peers

C4_Witness ==
    /\ SyncCycle /\ cycle.detected /\ cycle.result = "true"
    /\ cycle.doc.peers # << >>
    /\ Removed(cycle) # {}

\* C5: when the config fetch fails, sync_config() returns false and the
\* state store, the peer config files, the firewall rules and the tunnel
\* interfaces are as before, no executor was called and no reload requested.
C5_FetchFailureKeepsState ==
    (SyncCycle /\ cycle.doc = NoDoc) =>
        /\ cycle.result = "false"
        /\ state = cycle.preState
        /\ World = cycle.preWorld
        /\ cycle.log = << >>
        /\ cycle.reloads = 0

C5_Witness ==
    /\ SyncCycle /\ cycle.doc = NoDoc
    /\ cycle.kind = "tick"
    /\ state.applied_config.peers # << >>
    /\ \E a \in ASNs : BothFiles(a) /\ ifaces[a] = "up"

\* C6: a cycle whose document has the hash of the applied snapshot, with
\* both files of every desired peer on disk, writes no file, requests no
\* reload and leaves the state store as it was; the heartbeat of its tick
\* was sent.
C6_SameHashNoEffect ==
    (/\ SyncCycle /\ cycle.doc # NoDoc
     /\ RemoteHash(cycle.doc) = cycle.preState.config_version_hash
     /\ ~cycle.preMissing) =>
        /\ FileWrites(cycle.log) = {}
        /\ cycle.reloads = 0
        /\ state = cycle.preState
        /\ cycle.kind = "tick" => cycle.hb

\* C7: a cycle that finds a file of a desired peer missing while the remote
\* hash equals the applied hash leaves both files of every desired peer on
\* disk, requests a reload and commits the snapshot (no write fails).
C7_MissingFileRegenerated ==
    (/\ SyncCycle /\ cycle.doc # NoDoc /\ cycle.fail = NoFail
     /\ RemoteHash(cycle.doc) = cycle.preState.config_version_hash
     /\ cycle.preMissing) =>
        /\ \A i \in 1..Len(cycle.doc.peers) : BothFiles(cycle.doc.peers[i].asn)
        /\ cycle.reloads = 1
        /\ state = UpdateAppliedConfig(cycle.preState, cycle.doc.peers,
                                       RemoteHash(cycle.doc))

\* C8: after a sync_config() that returned true, a peer of the applied
\* snapshot that the desired config lacks has no interface, no agent rule
\* for the port that was opened for it and neither of its files, and the
\* state hash is the remote hash.
C8_RemovedPeerGone ==
    (SyncCycle /\ cycle.result = "true") =>
        \A i \in 1..Len(cycle.preState.applied_config.peers) :
            LET p == cycle.preState.applied_config.peers[i]
            IN p.asn \in Removed(cycle) =>
                   /\ ifaces[p.asn] = "absent"
                   /\ fw4[ListenPort(p)] = 0
                   /\ fw6[ListenPort(p)] = 0
                   /\ ~wgFiles[p.asn].exists
                   /\ ~birdFiles[p.asn].exists
                   /\ state.config_version_hash = RemoteHash(cycle.doc)

\* C9: once _add_peer(p) has succeeded, a further _add_peer(p) with the same
\* peer spec writes no file and adds no firewall rule, and the peer's port
\* has exactly one agent rule per address family.
C9_ApplyIdempotent ==
    (/\ cycle.kind = "apply" /\ cycle.fail = NoFail
     /\ cycle.preApplyOK[cycle.doc.peers[1].asn] = cycle.doc.peers[1]) =>
        /\ FileWrites(cycle.log) = {}
        /\ RuleAdds(cycle.log) = {}
        /\ fw4[ListenPort(cycle.doc.peers[1])] = 1
        /\ fw6[ListenPort(cycle.doc.peers[1])] = 1

C11_RunEndsOnlyAfterStop ==
    pc \in {"crashed", "stopped"} => ~running

\* C12: after a sync_config() call that did not succeed the loop goes on to
\* its next heartbeat tick with the committed hash unchanged, and a heartbeat
\* carries the hash the state store holds when it is sent.
C12_HeartbeatsKeepFlowing ==
    /\ (SyncCycle /\ cycle.result # "true") =>
           /\ pc = "loop"
           /\ state.config_version_hash = cycle.preState.config_version_hash
    /\ (lastHeartbeat.sent /\ cycle.kind = "none") =>
           lastHeartbeat.hash = state.config_version_hash

\* the executor call that an injected failure makes return False
FailedOp(step) ==
    IF step = "wg_write" THEN "write_interface"
    ELSE IF step = "bird_write" THEN "write_peer"
    ELSE "up"

\* the peer of the list with the given ASN, as a set
PeerOf(peers, asn) == {peers[i] : i \in {j \in 1..Len(peers) : peers[j].asn = asn}}

-----------------------------------------------------------------------------
(* Startup and the loopback device *)

\* main() has run to its exit or to the end of its first mesh sync
Started == boot.pc \in {"exited", "running"}

\* The id in force after the registration attempt: the control plane's when
\* the answer carries one within 1..NodeIdMax, otherwise the persisted one
IdInForce ==
    IF /\ boot.reply.ok
       /\ boot.reply.numeric_node_id \in 1..NodeIdMax
    THEN boot.reply.numeric_node_id
    ELSE boot.cfg0

C15_OnlyHostAddressesAdded ==
    lo.calls > 0 =>
        \A a \in lo.adds :
            /\ a \in {Ipv4Node(lo.n), Ipv6Node(lo.n)}
            /\ a.len \notin {PrefixLen4, PrefixLen6}

\* A /32 or /128 host address inside the overlay prefixes
NodeAddress(a) ==
    /\ InOverlay(a)
    /\ \/ a.fam = 4 /\ a.len = 32
       \/ a.fam = 6 /\ a.len = 128

\* The last setup_loopback(n) deleted exactly the overlay's node addresses
\* that are not node n's
DeletesExactlyStale ==
    lo.dels = {a \in lo.pre : NodeAddress(a) /\ a \notin {Ipv4Node(lo.n), Ipv6Node(lo.n)}}

\* Node n's host addresses are the only node addresses of the overlay
OnlyOwnNodeAddresses ==
    {a \in dummy0 : NodeAddress(a)} = {Ipv4Node(lo.n), Ipv6Node(lo.n)}

\* A repeated setup_loopback(n) adds and deletes nothing
SecondRunIdle ==
    (lo.calls >= 2 /\ lo.prev_n = lo.n) => (lo.adds = {} /\ lo.dels = {})

\* C16: from any set of addresses on the device, setup_loopback(n) deletes
\* exactly the /32 and /128 addresses inside the overlay prefixes that are
\* not node n's (nothing outside the prefixes), afterwards node n's host
\* addresses are the only node addresses of the overlay on the device, and
\* running it again with the same n adds nothing and deletes nothing.
C16_StaleAddressesRemoved ==
    (lo.calls > 0 /\ lo.ret) =>
        /\ DeletesExactlyStale
        /\ OnlyOwnNodeAddresses
        /\ SecondRunIdle

-----------------------------------------------------------------------------
(* The state store *)

\* C17: whatever step of save() the process crashes at, last_state.json
\* holds either the complete previous document or the complete new one,
\* never a partial one, and the load() of the next process yields one of
\* those two documents.
C17_SaveIsAtomic ==
    /\ store.disk.exists => store.disk.written = DumpChunks
    /\ store.saves > 0 => store.disk \in {store.old, File(store.new, DumpChunks)}
    /\ (store.fresh /\ store.saves > 0) =>
           state \in {ReadFile(store.old), store.new}

\* The process died while json.dump had written a part of the temporary
\* file, over an existing document, and the next process has loaded
C17_Witness ==
    /\ store.fresh
    /\ store.at = "dump"
    /\ store.temp.exists
    /\ store.temp.written \in 1..(DumpChunks - 1)
    /\ store.old.exists
    /\ state = store.old.doc
    /\ state # store.new

\* C18: update_applied_config(peers, h) stores rollback_snapshot with
\* previous_hash = the hash held before the call exactly when the applied
\* config it overwrites is non-empty; over an empty applied config (the
\* initial state) rollback_snapshot is left as it was, unset; in both cases
\* config_version_hash becomes h.
C18_RollbackOnlyOverNonEmpty ==
    store.upd.n > 0 =>
        /\ store.upd.post.config_version_hash = store.upd.h
        /\ IF store.upd.pre.applied_config.peers # << >>
           THEN store.upd.post.rollback_snapshot
                    = [set |-> TRUE, previous_hash |-> store.upd.pre.config_version_hash]
           ELSE store.upd.post.rollback_snapshot = store.upd.pre.rollback_snapshot

-----------------------------------------------------------------------------
(* Operator restart *)

\* The names of the steps a restart has issued so far
StepNames(log) == [i \in DOMAIN log |-> log[i].step]

\* A restart has run to its answer
RestartDone == api.pc = "respond" \/ (api.n > 0 /\ api.pc \in {"idle", "parsing"})

\* C19: a restart issues BGP disable, tunnel down, tunnel up, BGP enable in
\* that order and one after the other; all four are issued whatever the
\* earlier steps returned, and BGP enable is the last: when it succeeds the
\* peer's BGP protocol is enabled at the end.
C19_RestartOrder ==
    /\ Len(api.log) <= Len(RestartOrder)
    /\ StepNames(api.log) = SubSeq(RestartOrder, 1, Len(api.log))
    /\ RestartDone => StepNames(api.log) = RestartOrder
    /\ (api.pc = "respond" /\ api.log[Len(RestartOrder)].out = "ok") => bgp = "enabled"

\* BGP disable succeeded, both tunnel steps failed, and BGP was enabled again
C19_Witness ==
    /\ api.pc = "respond"
    /\ api.log[1].out = "ok"
    /\ api.log[2].out = "error"
    /\ api.log[3].out = "timeout"
    /\ api.log[4].out = "ok"
    /\ bgp = "enabled"

\* The restart has issued its first step and not yet its last
RestartMid == api.pc \in {"wg_down", "wg_up", "bgp_enable"}

\* The pass has made an executor call for the peer and has more to make
PassMid == rec.pc = "run" /\ rec.done > 0 /\ rec.steps # << >>

\* C20: no executor call of the reconciler's apply or retract of the peer is
\* made between the first and the last step of a restart of that peer, and
\* no restart step is made in the middle of the reconciler's apply or retract.
C20_RestartExcludesReconciler ==
    [][/\ rec'.done # rec.done /\ rec'.done > 0 => ~RestartMid
       /\ Len(api'.log) > Len(api.log) => ~PassMid]_vars

\* A restart request is waiting while the reconciler is in the middle of
\* its apply, after an earlier restart ran
C20_Witness ==
    /\ PassMid
    /\ rec.op = "apply"
    /\ api.pc = "parsing"
    /\ api.n > 0

-----------------------------------------------------------------------------
(* The operator API *)

\* C21: every configure caused by a blacklist save or by a maintenance-mode
\* start or stop is run by the debounced reloader (its timer), and a burst
\* of such mutations, each within coalesce_delay of the previous one, has
\* caused at most one configure.
C21_OperatorReloadsDebounced ==
    (ops.n >= 1 /\ ops.burst) =>
        /\ ops.cfg <= 1
        /\ ops.cfg = 1 => lastConfigure.by = "timer"

\* C28: for every set S the blacklist API produces, save_blacklist(S)
\* followed by load_blacklist() returns exactly S: after a successful add(a)
\* the number a is in the loaded blacklist and after a successful remove(a)
\* it is not.
C28_BlacklistRoundTrip ==
    ops.last.result \in {"added", "removed"} =>
        /\ ops.last.loaded = ops.last.saved
        /\ ops.last.result = "added" => ops.last.asn \in ops.last.loaded
        /\ ops.last.result = "removed" => ops.last.asn \notin ops.last.loaded

\* C22: when the process has exited after a shutdown signal stopped the run
\* loop, the last configure was the one of reload_now(), and no reload that
\* was still pending went down with the process.
C22_ShutdownFlushesReload ==
    (proc.pc = "exited" /\ pc = "stopped") =>
        /\ lastConfigure.by = "reload_now"
        /\ ~proc.lost

\* a callback of the last cycle for the peer
Fired(a) == {i \in DOMAIN prober.cb : prober.cb[i].asn = a}

\* the last cycle processed a successful probe of the peer
ProbedOk(a) ==
    /\ prober.last = "cycle"
    /\ prober.pre[a].tracked
    /\ prober.out[a].how = "rtt"

\* the last cycle probed the peer and the probe failed
ProbedFailed(a) ==
    /\ prober.last = "cycle"
    /\ prober.pre[a].tracked /\ ~prober.pre[a].fresh
    /\ prober.out[a].how \in {"nonzero", "timeout", "unparsable"}

C24_FailedProbeMovesToTier8 ==
    \A a \in ProbeAsns :
        ProbedFailed(a) =>
            /\ prober.peers[a].fail_count = prober.pre[a].fail_count + 1
            /\ prober.peers[a].last_tier = Len(Thresholds)
            /\ prober.pre[a].last_tier # Len(Thresholds) => Fired(a) # {}

\* the two strings differ in length or in some character
Differs(s, t) == Len(s) # Len(t) \/ \E i \in 1..Len(s) : s[i] # t[i]

\* the Authorization header of the request in hand, "" when there is none
Presented == IF web.req.header.present THEN web.req.header.value ELSE << >>

\* a token is configured
TokenConfigured == web.token.set /\ Len(web.token.text) > 0

\* C25: the handler of a request has run only if no API token is configured
\* or the Authorization header is, character for character, "Bearer <token>";
\* any other request is answered 401, its handler has not run and no command
\* was executed for it.
C25_OnlyExactTokenReachesHandler ==
    /\ web.ran => (~TokenConfigured \/ ~Differs(Presented, BearerPrefix \o web.token.text))
    /\ (web.pc = "done" /\ TokenConfigured
            /\ Differs(Presented, BearerPrefix \o web.token.text)) =>
           /\ web.resp.status = 401
           /\ ~web.ran
           /\ web.cmds = << >>

\* a request whose credential is the token with one more character was
\* refused, and so can one be that has the token without the scheme
C25_Witness ==
    /\ web.pc = "done"
    /\ TokenConfigured
    /\ web.req.header.present
    /\ Len(Presented) = Len(BearerPrefix) + Len(web.token.text) + 1
    /\ SubSeq(Presented, 1, Len(Presented) - 1) = BearerPrefix \o web.token.text
    /\ web.resp.status = 401
    /\ ~web.ran

\* C26: a diagnostic request whose body has no target, or an empty one, and
\* that reached its handler is answered 400 with an error body, and no
\* command was executed for it.
C26_MissingTargetIs400 ==
    (/\ web.pc = "done" /\ web.ran
     /\ web.req.route \in DiagRoutes
     /\ web.req.body.target \in {Absent, Json("text", "")}) =>
        /\ web.resp.status = 400
        /\ web.resp.key = "error"
        /\ web.cmds = << >>

\* C27: a ping or trace request that ran its command is answered 200 with a
\* result that is the command's stdout when it exited 0, its stderr when it
\* exited non-zero, and "Timeout" exactly when the command timed out.
C27_ResultFollowsOutcome ==
    (/\ web.pc = "done"
     /\ web.req.route \in {"ping", "trace"}
     /\ web.cmds # << >>) =>
        LET o == web.cmds[1].outcome
        IN /\ web.resp.status = 200
           /\ web.resp.key = "result"
           /\ (web.resp.text = "Timeout") <=> (o.kind = "timeout")
           /\ o.kind = "exit0" => web.resp.text = o.stdout
           /\ o.kind = "exit1" => web.resp.text = o.stderr

\* first <= asn <= last, on ASNs written <<asn \div 10000, asn % 10000>>
Between(first, asn, last) == ~AsnLess(asn, first) /\ ~AsnLess(last, asn)

\* 4242420000 <= asn <= 4242429999
InRangeA(asn) == Between(<<424242, 0>>, asn, <<424242, 9999>>)

\* 4201270000 <= asn <= 4201279999
InRangeB(asn) == Between(<<420127, 0>>, asn, <<420127, 9999>>)

\* the port the formulas give
FormulaPort(asn) ==
    IF InRangeA(asn) THEN 30000 + asn[2]
    ELSE IF InRangeB(asn) THEN 40000 + asn[2]
    ELSE 50000 + asn[2]

\* C29: the listen port of an ASN is 30000, 40000 or 50000 plus asn mod
\* 10000, by the range the ASN is in; two distinct ASNs of one of the two
\* ranges have distinct ports; and the port is a valid UDP port.
C29_ListenPortFormula ==
    portCalc.n > 0 =>
        /\ portCalc.pa = FormulaPort(portCalc.a)
        /\ portCalc.pb = FormulaPort(portCalc.b)
        /\ (portCalc.a = portCalc.b) => (portCalc.pa = portCalc.pb)
        /\ (/\ portCalc.a # portCalc.b
            /\ (InRangeA(portCalc.a) /\ InRangeA(portCalc.b)) \/ (InRangeB(portCalc.a) /\ InRangeB(portCalc.b))) =>
               portCalc.pa # portCalc.pb
        /\ portCalc.pa \in 1..65535
        /\ portCalc.pb \in 1..65535

\* the ports of the last ASN of one range and of another ASN of that range
\* that agrees with it in no digit but the thousands
C29_Witness ==
    /\ portCalc.n > 0
    /\ portCalc.a = <<RangeA, 1337>>
    /\ portCalc.b = <<RangeA, 337>>
    /\ portCalc.pa = 31337
    /\ portCalc.pb = 30337

\* the positions of the log at which the apply of a peer begins
Applies(log) == {i \in DOMAIN log : log[i].op = "add_peer"}

\* C30: in the log of one sync_config() call the applies of the peers come
\* in increasing ASN order.
C30_AppliesInAsnOrder ==
    SyncCycle =>
        \A i \in Applies(cycle.log), j \in Applies(cycle.log) :
            i < j => AsnLess(cycle.log[i].asn, cycle.log[j].asn)

-----------------------------------------------------------------------------
(* The tunnel executor's up() *)

\* position of a command in the commands of the last up(), 0 when not run
Pos(cmd) ==
    IF InSeq(cmd, tun.last.cmds)
    THEN CHOOSE i \in DOMAIN tun.last.cmds : tun.last.cmds[i] = cmd
    ELSE 0

\* the file holds a private key, a listen port and a peer section, as the
\* rendered configs do
FullConfig == tun.file.exists /\ tun.file.key /\ tun.file.port /\ tun.file.peer

\* C32: every run of up(I) issues link creation (only when I does not
\* exist), then setconf, then the private-key set, then the listen-port
\* set, then link up; key and port are never set before setconf; a failing
\* command stops the rest and makes up() return false.
C32_UpCommandOrder ==
    (tun.last.called /\ FullConfig) =>
        /\ tun.last.ret =>
               tun.last.cmds = Only(tun.last.pre = "absent", "link_add")
                                   \o <<"setconf", "private_key", "listen_port", "link_up">>
        /\ \A c \in {"private_key", "listen_port"} :
               Pos(c) > 0 => (Pos("setconf") > 0 /\ Pos("setconf") < Pos(c))
        /\ InSeq(tun.last.failAt, tun.last.cmds) =>
               /\ ~tun.last.ret
               /\ tun.last.cmds[Len(tun.last.cmds)] = tun.last.failAt

\* C40: after up(I) returned true, I exists and is administratively up,
\* whatever its state before the call.
C40_UpLeavesLinkUp ==
    (tun.last.called /\ tun.last.ret) => tun.link = "up"

-----------------------------------------------------------------------------
(* The mesh underlay *)

\* C33: after sync_mesh() returned true, every existing interface
\* dn42-wg-igp-<k> belongs to a node id k of the peer list just fetched,
\* the interface and the config file of any other k are gone (also for an
\* empty list), and the interfaces without the mesh prefix are as before.
C33_OnlyMeshPeersRemain ==
    (mesh.last.called /\ mesh.last.ret = "true") =>
        /\ \A k \in MeshIds :
               k \notin mesh.last.cfg.peers =>
                   /\ mesh.ifc[MeshName(k)] = "absent"
                   /\ MeshName(k) \notin mesh.conf
        /\ \A n \in IfNames :
               ~HasMeshPrefix(n) =>
                   /\ mesh.ifc[n] = mesh.last.pre[n]
                   /\ (n \in mesh.conf) <=> (n \in mesh.last.preConf)

-----------------------------------------------------------------------------
(* The wake-ups of run() *)

\* the work of a wake-up is over: its heartbeat was sent and run() is back
\* at the top of the loop, or has ended
WakeDone == lastHeartbeat.sent /\ pc \in {"loop", "crashed"}

\* C31: each wake-up sends its heartbeat before anything else;
\* sync_config() followed by the mesh resync runs on exactly the wake-ups
\* at which the accumulated time has reached sync_interval, after which the
\* accumulator is 0, whether or not the mesh resync failed.
C31_TickSchedule ==
    /\ pc \in {"tick_sync", "tick_mesh"} => (lastHeartbeat.sent /\ counter >= sync_interval)
    /\ pc = "tick_sync" => cycle = NoCycle
    /\ WakeDone =>
           IF cycle.kind = "tick"
           THEN /\ cycle.hb
                /\ mesh.last.called
                /\ mesh.last.at = syncs
                /\ counter = 0
           ELSE counter \in 1..(sync_interval - 1)

-----------------------------------------------------------------------------
(* The prober's history and the community manager *)

Min(a, b) == IF a < b THEN a ELSE b

\* C34: the history of every tracked peer holds at most 100 results, and
\* they are the most recent ones in the order they were recorded.
C34_HistoryIsLatestHundred ==
    \A a \in ProbeAsns :
        hist[a].has =>
            /\ Len(hist[a].items) = Min(hist[a].total, 100)
            /\ \A i \in DOMAIN hist[a].items :
                   hist[a].items[i] = hist[a].total - Len(hist[a].items) + i

C34_Witness ==
    /\ hist[HistoryAsn].has
    /\ hist[HistoryAsn].total = 102
    /\ hist[HistoryAsn].items[1] = 3
    /\ hist[HistoryAsn].items[100] = 102

\* a probe of a finished with the peer removed during the gather and not
\* added again
RemovedInFlight(a) ==
    /\ prober.last = "cycle"
    /\ prober.out[a] # NoOutcome
    /\ ~prober.pre[a].tracked

\* C37: peers and history always have the same keys, and a peer removed
\* while its probe was in flight stays removed when the probe completes:
\* no entry in either map, no state, no tier-change callback.
C37_RemovedPeerStaysRemoved ==
    /\ \A a \in ProbeAsns : prober.peers[a].tracked <=> hist[a].has
    /\ \A a \in ProbeAsns :
           RemovedInFlight(a) =>
               /\ prober.peers[a] = NoPeerInfo
               /\ hist[a] = NoHistory
               /\ Fired(a) = {}

C37_Witness ==
    \E a \in ProbeAsns :
        /\ RemovedInFlight(a)
        /\ prober.out[a].how = "rtt"
        /\ \E b \in ProbeAsns : Fired(b) # {}

\* C39: after every operation that changes the prober's tier of a peer,
\* probe_now() included, the manager's tier of the peer equals it.
C39_ManagerFollowsProber ==
    prober.last \in {"cycle", "now"} =>
        \A a \in ProbeAsns :
            (/\ prober.peers[a].tracked
             /\ prober.pre[a].tracked
             /\ prober.peers[a].last_tier # prober.pre[a].last_tier) =>
                mgr[a] = prober.peers[a].last_tier

-----------------------------------------------------------------------------
(* Maintenance mode *)

\* C38: in every reachable state, also after a restart of the agent, the
\* in-memory maintenance flag agrees with maintenance.conf: the file
\* defines MAINTENANCE_MODE = true exactly when the agent reports
\* maintenance_mode true (and so accepts /maintenance/stop).
C38_FlagAgreesWithFile ==
    ops.maintenance <=> (ops.flag = "true")


-----------------------------------------------------------------------------
(* The port opened, the ListenPort written and the port closed *)

\* ports the firewall executor was called with right after the log entry
\* op of asn: allow_port(listen_port) in _add_peer, remove_port(listen_port)
\* in _remove_peer
PortsAfter(log, op, asn, next) ==
    {log[i + 1].port : i \in {j \in DOMAIN log : /\ log[j].op = op
                                                  /\ log[j].asn = asn
                                                  /\ j + 1 \in DOMAIN log
                                                  /\ log[j + 1].op \in next}}

\* the port _add_peer opened for each desired peer is the ListenPort of
\* the tunnel file it wrote
OpenedIsWritten ==
    \A i \in 1..Len(cycle.doc.peers) :
        LET p == cycle.doc.peers[i]
        IN \A port \in PortsAfter(cycle.log, "add_peer", p.asn, {"allow_port", "port_exists"}) :
               wgFiles[p.asn].exists => wgFiles[p.asn].port = port

\* the port _remove_peer closed for each peer of the applied snapshot is
\* the port _add_peer opened for that peer spec
ClosedIsOpened ==
    \A i \in 1..Len(cycle.preState.applied_config.peers) :
        LET p == cycle.preState.applied_config.peers[i]
        IN \A port \in PortsAfter(cycle.log, "remove_peer_begin", p.asn, {"remove_port"}) :
               port = ListenPort(p)

\* C35: in every sync cycle the port opened in the firewall for an applied
\* peer is the ListenPort of its tunnel file, and the port closed for a
\* retracted peer is the port that was opened for it, whether the port was
\* supplied by the control plane or derived from the ASN.
C35_PortsAgree ==
    SyncCycle => (OpenedIsWritten /\ ClosedIsOpened)


-----------------------------------------------------------------------------
(* No reload request is lost *)

\* from some point on no thread runs the body of reload()
ReloadCallsCease == <>[][\A c \in Threads : ~ReloadBody(c)]_vars

====
